---- MODULE Spec2Model ----
(***************************************************************************)
(* The consumer subsystem of kafka-pixy (package consumer in               *)
(* src/server/httpsrv/httpsrv.go): the root consumer with its children     *)
(* map, the partition consumers (workers) with their message pumps, the    *)
(* broker consumers (executors) with their batcher and executor            *)
(* goroutines, and the worker-to-executor mapper.                          *)
(*                                                                         *)
(* Time is kept as elapsed time: instead of time.Time values the model     *)
(* stores how long ago lastReassignTime and lastErrTime were set, and how  *)
(* long a time.After timer still has to run.  Every comparison the code    *)
(* makes on times is a comparison of such a difference with Retry.Backoff. *)
(***************************************************************************)
EXTENDS Integers, Sequences, FiniteSets, TLC

\* ------------------------------------------------------------------ bounds
MaxOffset == 2

MaxExecutors == 2

\* The smallest values of fetch.Default run from 1 to this.
MaxFetchDefault == 4

\* ------------------------------------------------------- configuration
ChannelBufferSize == 1

FetchDefault == 1024

FetchMax == 4096

RetryBackoff == 1

\* fetchSize is an int32: half of its range, and its largest value.
Int32Half == 1073741824

MaxInt32 == 2147483647

\* ------------------------------------------------------------- universes
Workers == {1, 2}

TPs == {"p0", "p1"}

Brokers == {"b1", "b2"}

Executors == 1 .. MaxExecutors

NoWorker == 0

NoTP == "none"

NoBroker == "none"

NilExecutor == 0

OffsetNewest == -1

OffsetOldest == -2

ErrNil == "nil"

ErrTransport == "ErrTransport"

ErrOffsetOutOfRange == "ErrOffsetOutOfRange"

ErrNotLeaderForPartition == "ErrNotLeaderForPartition"

ErrIncompleteResponse == "ErrIncompleteResponse"

ErrMessageTooLarge == "ErrMessageTooLarge"

ErrNoError == "ErrNoError"

ConfigurationError == "ConfigurationError"

ErrRequestTimeout == "ErrRequestTimeout"

ErrTooManyRequests == "ErrTooManyRequests"

ErrUnknownTopicOrPartition == "ErrUnknownTopicOrPartition"

ErrBufferOverflow == "ErrBufferOverflow"

\* The errors pxy.Consume can return to handleConsume.
ConsumeErrors == {ErrRequestTimeout, ErrTooManyRequests,
                  ErrUnknownTopicOrPartition, ErrBufferOverflow}

\* What a consume request meets: whether getProxy and getGroupParam fail, the
\* error of pxy.Consume, and the message it returns when there is none.
HttpRequests ==
    [proxyErr : BOOLEAN, groupErr : BOOLEAN,
     consumeErr : ConsumeErrors \cup {ErrNil},
     Partition : {0, 1}, Offset : 0 .. MaxOffset]

\* A request that is served the message at offset 0 of partition 0.
NoRequest == [proxyErr |-> FALSE, groupErr |-> FALSE, consumeErr |-> ErrNil,
              Partition |-> 0, Offset |-> 0]

\* No response has been written.
NoResponse == [written |-> FALSE, status |-> 0, body |-> <<>>]

\* The base the offset tracker starts from, and no acknowledgement taken yet.
InitialBase == 4

NoAck == -1

\* The highest offset that is acknowledged.
MaxAck == 10

TimerOff == -1

\* leadingPartials of a worker that has taken some other result.
NotLeading == -1

\* lastReassignTime and lastErrTime start as the zero time.Time: longer ago
\* than any backoff.
LongAgo == RetryBackoff + 1

VARIABLES
    \* configuration and process
    returnErrors,       \* config.Consumer.Return.Errors
    pool,               \* worker objects ConsumePartition may still create
    panicked,           \* the process died of an unrecovered panic
    \* consumer
    children,           \* consumer.children: TP -> worker
    childrenLock,       \* holder of consumer.childrenLock
    \* the user's calls
    cpPc,               \* ConsumePartition call that creates worker w
    cpErr,              \* error returned by the last ConsumePartition
    closePc,            \* handle.Close() of worker w
    closeErrors,        \* the ConsumerErrors handle.Close() returned
    ccPc,               \* Consumer.Close()
    ccCur,              \* child Consumer.Close() is working on
    ccDone,             \* children Consumer.Close() has been through
    \* partitionConsumer
    tp,
    offset,
    fetchSize,
    assignmentCh,
    messagesCh,
    errorsCh,
    closingCh,          \* TRUE: closed
    messagesClosed,     \* number of close(pc.messagesCh) executed
    errorsClosed,       \* number of close(pc.errorsCh) executed
    closedCh,           \* number of close(pc.closedCh) executed
    \* pullMessages
    pumpPc,
    assignedFetchRequestCh,
    nilOrFetchRequestsCh,
    nilOrFetchResultsCh,
    fetchResultCh,
    nilOrMessagesCh,
    nilOrReassignRetryTimerCh,
    fetchedMessages,
    currMessageIdx,
    lastReassignTime,
    \* brokerConsumer
    bc,
    \* mapper
    changes,
    mapperPc,
    mapperW,
    mapperE,
    assignments,
    \* history
    concreteOffset,     \* what ConsumePartition returned
    lastPushed,         \* offset of the last message pushed on messagesCh
    exitReason,         \* why the pump went to done
    lastForwardTime,    \* when the pump last forwarded a WorkerReassign
    leadingPartials,    \* the results taken so far, while all were cut messages
    cpCall,             \* the last ConsumePartition call: argument, client answers
    httpRequest,        \* handleConsume: what the request meets on its way
    httpResponse,       \* handleConsume: the response written
    growth,             \* a worker's fetchSize under a fetch configuration
    tracker,            \* offset tracker: dense base B and sparse acks above it
    ackedOffset,        \* the offset of the last onAck call
    unanswered          \* requests an executor accepted and has not answered

configVars == <<returnErrors, pool, panicked>>

consumerVars == <<children, childrenLock>>

cpVars == <<cpPc, cpErr>>

closeVars == <<closePc, closeErrors>>

ccVars == <<ccPc, ccCur, ccDone>>

callVars == <<cpVars, closeVars, ccVars>>

pcFields == <<tp, offset, fetchSize>>

userChans == <<messagesCh, errorsCh>>

closeChans == <<closingCh, messagesClosed, errorsClosed, closedCh>>

pumpLocals == <<assignedFetchRequestCh, nilOrFetchRequestsCh, nilOrFetchResultsCh,
                nilOrMessagesCh, nilOrReassignRetryTimerCh, fetchedMessages,
                currMessageIdx, lastReassignTime>>

mapperVars == <<changes, mapperPc, mapperW, mapperE, assignments>>

historyVars == <<concreteOffset, lastPushed, exitReason, lastForwardTime,
                 leadingPartials, cpCall, unanswered>>

\* The request that handleConsume serves and its response.
httpVars == <<httpRequest, httpResponse>>

\* The fetchSize of a worker that parses one block after the other, with the
\* fetch.Default and fetch.Max it is configured with.
growthVars == <<growth>>

\* The offset tracker of one partition and the last acknowledgement it took.
trackerVars == <<tracker, ackedOffset>>

vars == <<configVars, consumerVars, callVars, pcFields, assignmentCh, userChans,
          closeChans, pumpPc, pumpLocals, fetchResultCh, bc, mapperVars,
          historyVars, httpVars, trackerVars, growthVars>>

\* ------------------------------------------------------------- helpers
Min(a, b) == IF a < b THEN a ELSE b

Range(s) == {s[i] : i \in 1 .. Len(s)}

\* fetchRequest{Topic, Partition, Offset, MaxBytes, Lag, ReplyToCh}: topic and
\* partition are those of the requesting worker, whose fetchResultCh is ReplyToCh.
FetchRequest(w) == [ReplyToCh |-> w, Offset |-> offset[w], MaxBytes |-> fetchSize[w]]

\* A FetchResponseBlock; present = FALSE is GetBlock() == nil.
NoBlock == [present |-> FALSE, Err |-> ErrNoError, Messages |-> <<>>,
            PartialTrailingMessage |-> FALSE]

ErrBlock(e) == [present |-> TRUE, Err |-> e, Messages |-> <<>>,
                PartialTrailingMessage |-> FALSE]

MsgBlock(msgs, partial) == [present |-> TRUE, Err |-> ErrNoError, Messages |-> msgs,
                            PartialTrailingMessage |-> partial]

NoBlocks == [w \in Workers |-> NoBlock]

\* fetchResult{Response, Err}; hasResponse = FALSE is Response == nil.
NilResult(err) == [hasResponse |-> FALSE, blocks |-> NoBlocks, Err |-> err]

OkResult(blocks) == [hasResponse |-> TRUE, blocks |-> blocks, Err |-> ErrNil]

\* A brokerConsumer that was never spawned.
NoBC == [live |-> FALSE, conn |-> NoBroker, connOpen |-> FALSE,
         requestsClosed |-> FALSE,
         batcherPc |-> "exited", batchRequest |-> <<>>, nilOrBatchRequestCh |-> FALSE,
         execPc |-> "exited", fetchRequests |-> <<>>, replyIdx |-> 0,
         res |-> NilResult(ErrNil), rejecting |-> FALSE,
         lastErr |-> ErrNil, lastErrTime |-> LongAgo]

\* A brokerConsumer after Stop(): nothing of it is left but its closed
\* requestsCh, which a worker may still hold.
StoppedBC == [NoBC EXCEPT !.requestsClosed = TRUE]

InitServer(ids, errs, requests, configs) ==
    /\ growth \in {[Default |-> c.Default, Max |-> c.Max, fetchSize |-> c.Default] :
                      c \in configs}
    /\ httpRequest \in requests
    /\ httpResponse = NoResponse
    /\ tracker = [B |-> InitialBase, sparse |-> {}]
    /\ ackedOffset = NoAck
    /\ returnErrors \in errs
    /\ pool = ids
    /\ panicked = FALSE
    /\ children = [t \in TPs |-> NoWorker]
    /\ childrenLock = "free"
    /\ cpPc = [w \in Workers |-> "none"]
    /\ cpErr = ErrNil
    /\ closePc = [w \in Workers |-> "none"]
    /\ closeErrors = [w \in Workers |-> <<>>]
    /\ ccPc = "none"
    /\ ccCur = NoWorker
    /\ ccDone = {}
    /\ tp = [w \in Workers |-> NoTP]
    /\ offset = [w \in Workers |-> 0]
    /\ fetchSize = [w \in Workers |-> 0]
    /\ assignmentCh = [w \in Workers |-> <<>>]
    /\ messagesCh = [w \in Workers |-> <<>>]
    /\ errorsCh = [w \in Workers |-> <<>>]
    /\ closingCh = [w \in Workers |-> FALSE]
    /\ messagesClosed = [w \in Workers |-> 0]
    /\ errorsClosed = [w \in Workers |-> 0]
    /\ closedCh = [w \in Workers |-> 0]
    /\ pumpPc = [w \in Workers |-> "none"]
    /\ assignedFetchRequestCh = [w \in Workers |-> NilExecutor]
    /\ nilOrFetchRequestsCh = [w \in Workers |-> NilExecutor]
    /\ nilOrFetchResultsCh = [w \in Workers |-> FALSE]
    /\ fetchResultCh = [w \in Workers |-> <<>>]
    /\ nilOrMessagesCh = [w \in Workers |-> FALSE]
    /\ nilOrReassignRetryTimerCh = [w \in Workers |-> TimerOff]
    /\ fetchedMessages = [w \in Workers |-> <<>>]
    /\ currMessageIdx = [w \in Workers |-> 0]
    /\ lastReassignTime = [w \in Workers |-> LongAgo]
    /\ bc = [e \in Executors |-> NoBC]
    /\ changes = [w \in Workers |-> "none"]
    /\ mapperPc = "idle"
    /\ mapperW = NoWorker
    /\ mapperE = NilExecutor
    /\ assignments = [w \in Workers |-> NilExecutor]
    /\ concreteOffset = [w \in Workers |-> 0]
    /\ lastPushed = [w \in Workers |-> -1]
    /\ exitReason = [w \in Workers |-> "none"]
    /\ lastForwardTime = [w \in Workers |-> LongAgo]
    /\ leadingPartials = [w \in Workers |-> 0]
    /\ cpCall = [requested |-> OffsetNewest, oldestOffset |-> 0, newestOffset |-> 0]
    /\ unanswered = [e \in Executors |-> {}]

\* The consumer as NewConsumerFromClient leaves it, with workers ids to spawn
\* and Return.Errors among errs; the HTTP request is served without error.
InitWith(ids, errs) ==
    InitServer(ids, errs, {NoRequest}, {[Default |-> FetchDefault, Max |-> FetchMax]})


\* ------------------------------------------------------ pure functions

\* respondWithJSON: the response with a status and a body.
respondWithJSON(status, body) == [written |-> TRUE, status |-> status, body |-> body]

\* The type switch of handleConsume on the error of pxy.Consume.
consumeStatus(err) ==
    IF err = ErrRequestTimeout THEN 408
    ELSE IF err = ErrTooManyRequests THEN 429
    ELSE 500

\* T.handleConsume: the response to a request.
handleConsume(req) ==
    IF req.proxyErr THEN respondWithJSON(400, <<"error">>)
    ELSE IF req.groupErr THEN respondWithJSON(400, <<"error">>)
    ELSE IF req.consumeErr # ErrNil
        THEN respondWithJSON(consumeStatus(req.consumeErr), <<req.consumeErr>>)
    ELSE respondWithJSON(200, <<req.Partition, req.Offset>>)

\* A choice that resolves the two constants and takes any other offset as it is.
chooseStartingOffset_unclamped(requested, oldestOffset, newestOffset) ==
    IF requested = OffsetNewest THEN newestOffset
    ELSE IF requested = OffsetOldest THEN oldestOffset
    ELSE requested

\* consumer.chooseStartingOffset, given what client.GetOffset answered.
chooseStartingOffset(requested, oldestOffset, newestOffset) ==
    IF requested = OffsetNewest \/ requested > newestOffset THEN newestOffset
    ELSE IF requested = OffsetOldest \/ requested < oldestOffset THEN oldestOffset
    ELSE requested

\* A fetch size that grows by fetch.Default at a time.
Double_step(size) == size + FetchDefault

\* pc.fetchSize *= 2, in int32: the product wraps around.
Double(size) ==
    IF size >= Int32Half THEN (size - Int32Half) * 2 - Int32Half - Int32Half
    ELSE IF size < -Int32Half THEN (size + Int32Half) * 2 + Int32Half + Int32Half
    ELSE size * 2

\* pc.fetchSize *= 2, and the clamp to fetch.Max when there is one.
growFetchSize(size, max) ==
    IF max > 0 /\ Double(size) > max THEN max ELSE Double(size)

\* A report that queues the error whether the channel has room or not.
reportError_queue(ch, err) == IF ~returnErrors THEN ch ELSE Append(ch, err)

\* partitionConsumer.reportError: the errors channel after reporting err.
reportError(ch, err) ==
    IF ~returnErrors THEN ch
    ELSE IF Len(ch) < ChannelBufferSize THEN Append(ch, err)
    ELSE ch

\* A loop over block.MsgSet.Messages that forgets to skip anything.
keptMessages_all(msgs, off) == msgs

\* parseFetchResult's loop over block.MsgSet.Messages: the messages below the
\* worker's offset are skipped.
keptMessages(msgs, off) == SelectSeq(msgs, LAMBDA m : ~(m < off))

\* A parser that keeps the fetch size it grew.
resetFetchSize_keep(size) == size

\* pc.fetchSize = Fetch.Default, once the block has messages.
resetFetchSize(size) == FetchDefault

\* A parser that stays on the oversized message.
skipOversized_stay(off) == off

\* pc.offset++ of parseFetchResult: the oversized message is skipped.
skipOversized(off) == off + 1

\* A parser that asks for more data after every empty message set.
hasPartialTrailing_always(block) == TRUE

\* block.MsgSet.PartialTrailingMessage: the broker cut a message that did not
\* fit in the requested size.
hasPartialTrailing(block) == block.PartialTrailingMessage

ParseOutcome(msgs, err, off, size, reported) ==
    [msgs |-> msgs, err |-> err, offset |-> off, fetchSize |-> size,
     reported |-> reported]

\* partitionConsumer.parseFetchResult for worker w with pc.offset = off and
\* pc.fetchSize = size: the messages and error returned, the worker's offset and
\* fetchSize afterwards, and the error reported from inside (MessageTooLarge).
parseFetchResult(w, off, size, result) ==
    LET block == result.blocks[w]
        kept == keptMessages(block.Messages, off)
    IN  IF result.Err # ErrNil
            THEN ParseOutcome(<<>>, result.Err, off, size, ErrNil)
        ELSE IF ~result.hasResponse
            THEN ParseOutcome(<<>>, ErrIncompleteResponse, off, size, ErrNil)
        ELSE IF ~block.present
            THEN ParseOutcome(<<>>, ErrIncompleteResponse, off, size, ErrNil)
        ELSE IF block.Err # ErrNoError
            THEN ParseOutcome(<<>>, block.Err, off, size, ErrNil)
        ELSE IF Len(block.Messages) = 0
            THEN IF hasPartialTrailing(block)
                    THEN IF FetchMax > 0 /\ size = FetchMax
                            THEN ParseOutcome(<<>>, ErrNil, skipOversized(off), size,
                                              ErrMessageTooLarge)
                            ELSE ParseOutcome(<<>>, ErrNil, off,
                                              growFetchSize(size, FetchMax), ErrNil)
                    ELSE ParseOutcome(<<>>, ErrNil, off, size, ErrNil)
        ELSE IF Len(kept) = 0
            THEN ParseOutcome(<<>>, ErrIncompleteResponse, off,
                              resetFetchSize(size), ErrNil)
        ELSE ParseOutcome(kept, ErrNil, off, resetFetchSize(size), ErrNil)

\* ------------------------------------------------------------- mapper intake
\* The mapper is not part of the sources at hand; it is modelled from the
\* description of its event loop.  A sender never waits for the loop: the
\* event is noted for the worker and handled when the loop gets to it.
WorkerSpawned(w) == [changes EXCEPT ![w] = "assign"]

\* A mapper intake that loses the reassignment requests.
WorkerReassign_lost(w) == changes

WorkerReassign(w) == [changes EXCEPT ![w] = IF @ = "stop" THEN "stop" ELSE "assign"]

WorkerStopped(w) == [changes EXCEPT ![w] = "stop"]

\* ------------------------------------------------------------ pullMessages

\* The closure triggerOrScheduleReassign of pullMessages.
triggerOrScheduleReassign(w) ==
    /\ assignedFetchRequestCh' = [assignedFetchRequestCh EXCEPT ![w] = NilExecutor]
    /\ IF lastReassignTime[w] > RetryBackoff
          THEN /\ lastReassignTime' = [lastReassignTime EXCEPT ![w] = 0]
               /\ changes' = WorkerReassign(w)
               /\ lastForwardTime' = [lastForwardTime EXCEPT ![w] = 0]
          ELSE UNCHANGED <<lastReassignTime, changes, lastForwardTime>>
    /\ nilOrReassignRetryTimerCh' =
           [nilOrReassignRetryTimerCh EXCEPT ![w] = RetryBackoff]

\* A pump that arms a request on every assignment.
noFetchPending_always(awaiting, pushing) == TRUE

\* "If there is a fetch request pending, then let it complete": the test
\* nilOrFetchResultsCh == nil && nilOrMessagesCh == nil.
noFetchPending(awaiting, pushing) == ~awaiting /\ ~pushing

\* A pump that leaves the retry timer running.
cancelRetryTimer_keep(timer) == timer

\* "Cancel the reassign retry timer": nilOrReassignRetryTimerCh = nil.
cancelRetryTimer(timer) == TimerOff

\* case bw := <-pc.assignmentCh
PumpAssignment(w) ==
    /\ ~panicked
    /\ pumpPc[w] = "select"
    /\ assignmentCh[w] # <<>>
    /\ LET bw == Head(assignmentCh[w]) IN
        /\ assignmentCh' = [assignmentCh EXCEPT ![w] = Tail(@)]
        /\ IF bw = NilExecutor
              THEN /\ triggerOrScheduleReassign(w)
                   /\ UNCHANGED nilOrFetchRequestsCh
              ELSE /\ assignedFetchRequestCh' =
                          [assignedFetchRequestCh EXCEPT ![w] = bw]
                   /\ nilOrReassignRetryTimerCh' =
                          [nilOrReassignRetryTimerCh EXCEPT ![w] = cancelRetryTimer(@)]
                   /\ nilOrFetchRequestsCh' =
                          IF noFetchPending(nilOrFetchResultsCh[w], nilOrMessagesCh[w])
                              THEN [nilOrFetchRequestsCh EXCEPT ![w] = bw]
                              ELSE nilOrFetchRequestsCh
                   /\ UNCHANGED <<lastReassignTime, changes, lastForwardTime>>
    /\ UNCHANGED <<configVars, consumerVars, callVars, pcFields, userChans,
                   closeChans, pumpPc, nilOrFetchResultsCh, nilOrMessagesCh,
                   fetchedMessages, currMessageIdx, fetchResultCh, bc,
                   mapperPc, mapperW, mapperE, assignments,
                   concreteOffset, lastPushed, exitReason, leadingPartials, cpCall,
                   unanswered, httpVars, trackerVars, growthVars>>

\* case nilOrFetchRequestsCh <- fetchRequest{...}, received by the batcher's
\* case fr, ok := <-bc.requestsCh.  A send on a closed channel panics.
PumpSendRequest(w) ==
    /\ ~panicked
    /\ pumpPc[w] = "select"
    /\ nilOrFetchRequestsCh[w] # NilExecutor
    /\ LET e == nilOrFetchRequestsCh[w] IN
        IF bc[e].requestsClosed
           THEN /\ panicked' = TRUE
                /\ UNCHANGED <<returnErrors, pool, nilOrFetchRequestsCh,
                               nilOrFetchResultsCh, bc, unanswered>>
           ELSE /\ bc[e].batcherPc = "run"
                /\ bc' = [bc EXCEPT ![e].batchRequest = Append(@, FetchRequest(w)),
                                    ![e].nilOrBatchRequestCh = TRUE]
                /\ nilOrFetchRequestsCh' =
                       [nilOrFetchRequestsCh EXCEPT ![w] = NilExecutor]
                /\ nilOrFetchResultsCh' = [nilOrFetchResultsCh EXCEPT ![w] = TRUE]
                /\ unanswered' = [unanswered EXCEPT ![e] = @ \cup {w}]
                /\ UNCHANGED configVars
    /\ UNCHANGED <<consumerVars, callVars, pcFields, assignmentCh, userChans,
                   closeChans, pumpPc, assignedFetchRequestCh, nilOrMessagesCh,
                   nilOrReassignRetryTimerCh, fetchedMessages, currMessageIdx,
                   lastReassignTime, fetchResultCh, mapperVars,
                   concreteOffset, lastPushed, exitReason, lastForwardTime,
                   leadingPartials, cpCall, httpVars, trackerVars, growthVars>>

\* A pump that gives up on every error a broker puts in a block.
fatal_blockErrors(err) == err \in {ErrOffsetOutOfRange, ErrNotLeaderForPartition}

\* A pump that gives up on no error.
fatal_never(err) == FALSE

\* if err == sarama.ErrOffsetOutOfRange { goto done }
fatal(err) == err = ErrOffsetOutOfRange

\* A label done placed after close(pc.messagesCh).
done_afterMessages == "closeErrors"

\* The label done of pullMessages: what the pump does first when it gets there.
done == "closeMessages"

\* case result := <-nilOrFetchResultsCh
\* The fetch result is a block for w with an empty message set and the partial
\* trailing message flag.
EmptyPartial(result, w) ==
    /\ result.Err = ErrNil
    /\ result.hasResponse
    /\ result.blocks[w].present
    /\ result.blocks[w].Err = ErrNoError
    /\ result.blocks[w].Messages = <<>>
    /\ result.blocks[w].PartialTrailingMessage

PumpFetchResult(w) ==
    /\ ~panicked
    /\ pumpPc[w] = "select"
    /\ nilOrFetchResultsCh[w]
    /\ fetchResultCh[w] # <<>>
    /\ LET result == Head(fetchResultCh[w])
           p == parseFetchResult(w, offset[w], fetchSize[w], result)
       IN
        /\ fetchResultCh' = [fetchResultCh EXCEPT ![w] = Tail(@)]
        /\ nilOrFetchResultsCh' = [nilOrFetchResultsCh EXCEPT ![w] = FALSE]
        /\ offset' = [offset EXCEPT ![w] = p.offset]
        /\ fetchSize' = [fetchSize EXCEPT ![w] = p.fetchSize]
        /\ fetchedMessages' = [fetchedMessages EXCEPT ![w] = p.msgs]
        /\ leadingPartials' =
               [leadingPartials EXCEPT ![w] =
                   IF @ # NotLeading /\ EmptyPartial(result, w)
                       THEN @ + 1 ELSE NotLeading]
        /\ errorsCh' = [errorsCh EXCEPT ![w] =
                          IF p.err # ErrNil THEN reportError(@, p.err)
                          ELSE IF p.reported # ErrNil THEN reportError(@, p.reported)
                          ELSE @]
        /\ IF fatal(p.err)
              THEN /\ pumpPc' = [pumpPc EXCEPT ![w] = done]
                   /\ exitReason' = [exitReason EXCEPT ![w] = "oor"]
                   /\ UNCHANGED <<assignedFetchRequestCh, lastReassignTime, changes,
                                  nilOrReassignRetryTimerCh, nilOrFetchRequestsCh,
                                  nilOrMessagesCh, currMessageIdx, lastForwardTime>>
           ELSE IF p.err # ErrNil
              THEN /\ triggerOrScheduleReassign(w)
                   /\ UNCHANGED <<pumpPc, exitReason, nilOrFetchRequestsCh,
                                  nilOrMessagesCh, currMessageIdx>>
           ELSE IF Len(p.msgs) = 0
              THEN /\ nilOrFetchRequestsCh' =
                          [nilOrFetchRequestsCh EXCEPT ![w] = assignedFetchRequestCh[w]]
                   /\ UNCHANGED <<pumpPc, exitReason, assignedFetchRequestCh,
                                  lastReassignTime, changes, nilOrReassignRetryTimerCh,
                                  nilOrMessagesCh, currMessageIdx, lastForwardTime>>
              ELSE /\ currMessageIdx' = [currMessageIdx EXCEPT ![w] = 1]
                   /\ nilOrMessagesCh' = [nilOrMessagesCh EXCEPT ![w] = TRUE]
                   /\ UNCHANGED <<pumpPc, exitReason, assignedFetchRequestCh,
                                  lastReassignTime, changes, nilOrReassignRetryTimerCh,
                                  nilOrFetchRequestsCh, lastForwardTime>>
    /\ UNCHANGED <<configVars, consumerVars, callVars, tp, assignmentCh, messagesCh,
                   closeChans, bc, mapperPc, mapperW, mapperE, assignments,
                   concreteOffset, lastPushed, cpCall, unanswered, httpVars, trackerVars, growthVars>>

\* pc.offset = currMessage.Offset, the offset of the message itself.
nextOffset_same(currMessageOffset) == currMessageOffset

\* pc.offset = currMessage.Offset + 1
nextOffset(currMessageOffset) == currMessageOffset + 1

\* case nilOrMessagesCh <- currMessage
PumpPushMessage(w) ==
    /\ ~panicked
    /\ pumpPc[w] = "select"
    /\ nilOrMessagesCh[w]
    /\ Len(messagesCh[w]) < ChannelBufferSize
    /\ LET currMessage == fetchedMessages[w][currMessageIdx[w]] IN
        /\ messagesCh' = [messagesCh EXCEPT ![w] = Append(@, currMessage)]
        /\ offset' = [offset EXCEPT ![w] = nextOffset(currMessage)]
        /\ lastPushed' = [lastPushed EXCEPT ![w] = currMessage]
    /\ IF currMessageIdx[w] + 1 <= Len(fetchedMessages[w])
          THEN /\ currMessageIdx' = [currMessageIdx EXCEPT ![w] = @ + 1]
               /\ UNCHANGED <<nilOrMessagesCh, nilOrFetchRequestsCh,
                              fetchedMessages>>
          ELSE \* fetchedMessages and currMessageIdx are not read again before
               \* the next fetch result overwrites them: they are kept as empty.
               /\ currMessageIdx' = [currMessageIdx EXCEPT ![w] = 0]
               /\ fetchedMessages' = [fetchedMessages EXCEPT ![w] = <<>>]
               /\ nilOrMessagesCh' = [nilOrMessagesCh EXCEPT ![w] = FALSE]
               /\ nilOrFetchRequestsCh' =
                      [nilOrFetchRequestsCh EXCEPT ![w] = assignedFetchRequestCh[w]]
    /\ UNCHANGED <<configVars, consumerVars, callVars, tp, fetchSize, assignmentCh,
                   errorsCh, closeChans, pumpPc, assignedFetchRequestCh,
                   nilOrFetchResultsCh, nilOrReassignRetryTimerCh,
                   lastReassignTime, fetchResultCh, bc, mapperVars,
                   concreteOffset, exitReason, lastForwardTime, leadingPartials, cpCall,
                   unanswered, httpVars, trackerVars, growthVars>>

\* case <-nilOrReassignRetryTimerCh
PumpRetryTimer(w) ==
    /\ ~panicked
    /\ pumpPc[w] = "select"
    /\ nilOrReassignRetryTimerCh[w] = 0
    /\ changes' = WorkerReassign(w)
    /\ lastForwardTime' = [lastForwardTime EXCEPT ![w] = 0]
    /\ nilOrReassignRetryTimerCh' =
           [nilOrReassignRetryTimerCh EXCEPT ![w] = RetryBackoff]
    /\ UNCHANGED <<configVars, consumerVars, callVars, pcFields, assignmentCh,
                   userChans, closeChans, pumpPc, assignedFetchRequestCh,
                   nilOrFetchRequestsCh, nilOrFetchResultsCh, nilOrMessagesCh,
                   fetchedMessages, currMessageIdx, lastReassignTime, fetchResultCh,
                   bc, mapperPc, mapperW, mapperE, assignments,
                   concreteOffset, lastPushed, exitReason, leadingPartials, cpCall,
                   unanswered, httpVars, trackerVars, growthVars>>

\* case <-pc.closingCh
PumpClosing(w) ==
    /\ ~panicked
    /\ pumpPc[w] = "select"
    /\ closingCh[w]
    /\ pumpPc' = [pumpPc EXCEPT ![w] = done]
    /\ exitReason' = [exitReason EXCEPT ![w] = "closing"]
    /\ UNCHANGED <<configVars, consumerVars, callVars, pcFields, assignmentCh,
                   userChans, closeChans, pumpLocals, fetchResultCh, bc, mapperVars,
                   concreteOffset, lastPushed, lastForwardTime, leadingPartials, cpCall,
                   unanswered, httpVars, trackerVars, growthVars>>

\* done: close(pc.messagesCh)
PumpCloseMessages(w) ==
    /\ ~panicked
    /\ pumpPc[w] = "closeMessages"
    /\ messagesClosed' = [messagesClosed EXCEPT ![w] = @ + 1]
    /\ pumpPc' = [pumpPc EXCEPT ![w] = "closeErrors"]
    /\ UNCHANGED <<configVars, consumerVars, callVars, pcFields, assignmentCh,
                   userChans, closingCh, errorsClosed, closedCh, pumpLocals,
                   fetchResultCh, bc, mapperVars, historyVars, httpVars, trackerVars, growthVars>>

\* close(pc.errorsCh)
PumpCloseErrors(w) ==
    /\ ~panicked
    /\ pumpPc[w] = "closeErrors"
    /\ errorsClosed' = [errorsClosed EXCEPT ![w] = @ + 1]
    /\ pumpPc' = [pumpPc EXCEPT ![w] = "closeClosed"]
    /\ UNCHANGED <<configVars, consumerVars, callVars, pcFields, assignmentCh,
                   userChans, closingCh, messagesClosed, closedCh, pumpLocals,
                   fetchResultCh, bc, mapperVars, historyVars, httpVars, trackerVars, growthVars>>

\* close(pc.closedCh), and pullMessages returns: its local variables are gone.
PumpCloseClosed(w) ==
    /\ ~panicked
    /\ pumpPc[w] = "closeClosed"
    /\ closedCh' = [closedCh EXCEPT ![w] = @ + 1]
    /\ pumpPc' = [pumpPc EXCEPT ![w] = "exited"]
    /\ assignedFetchRequestCh' = [assignedFetchRequestCh EXCEPT ![w] = NilExecutor]
    /\ nilOrFetchRequestsCh' = [nilOrFetchRequestsCh EXCEPT ![w] = NilExecutor]
    /\ nilOrFetchResultsCh' = [nilOrFetchResultsCh EXCEPT ![w] = FALSE]
    /\ nilOrMessagesCh' = [nilOrMessagesCh EXCEPT ![w] = FALSE]
    /\ nilOrReassignRetryTimerCh' =
           [nilOrReassignRetryTimerCh EXCEPT ![w] = TimerOff]
    /\ fetchedMessages' = [fetchedMessages EXCEPT ![w] = <<>>]
    /\ currMessageIdx' = [currMessageIdx EXCEPT ![w] = 0]
    /\ lastReassignTime' = [lastReassignTime EXCEPT ![w] = LongAgo]
    /\ lastForwardTime' = [lastForwardTime EXCEPT ![w] = LongAgo]
    /\ UNCHANGED <<configVars, consumerVars, callVars, pcFields, assignmentCh,
                   userChans, closingCh, messagesClosed, errorsClosed,
                   fetchResultCh, bc, mapperVars,
                   concreteOffset, lastPushed, exitReason, leadingPartials, cpCall,
                   unanswered, httpVars, trackerVars, growthVars>>


\* -------------------------------------------------------- brokerConsumer

\* A circuit breaker that is always open.
rejectBatch_always(sinceLastErr) == TRUE

\* executeBatches: "Reject consume requests for awhile after a connection
\* failure"; sinceLastErr is time.Now().UTC().Sub(lastErrTime).
rejectBatch(sinceLastErr) == sinceLastErr < RetryBackoff

\* A batcher that keeps its accumulated batch when requestsCh is closed.
batchOnClose_keep(batchRequest) == batchRequest

\* What the batcher does with its accumulated batch when requestsCh is closed:
\* batchRequests returns, and the slice is gone with it.
batchOnClose(batchRequest) == <<>>

\* The message sets a broker can return for a fetch at offset o: messages in log
\* order, starting at or (a compressed batch) before o, possibly with gaps.
Window(o) == {x \in (o - 1) .. (o + 1) : x >= 0 /\ x <= MaxOffset}

MsgSets(o) ==
    {<<a>> : a \in Window(o)}
        \cup {s \in {<<a, b>> : a \in Window(o), b \in Window(o)} : s[1] < s[2]}
        \cup {s \in {<<o - 1, o, o + 1>>} : Range(s) \subseteq Window(o)}

\* The blocks a broker can answer to a fetch at offset o.  The log holds the
\* offsets 0 .. MaxOffset: a partial trailing message is a message of the log.
BlockChoices(o) ==
    {NoBlock, ErrBlock(ErrOffsetOutOfRange), ErrBlock(ErrNotLeaderForPartition),
     MsgBlock(<<>>, FALSE)}
        \cup {MsgBlock(<<>>, TRUE) : x \in {o} \cap (0 .. MaxOffset)}
        \cup {MsgBlock(s, FALSE) : s \in MsgSets(o)}

AllBlocks == UNION {BlockChoices(o) : o \in 0 .. (MaxOffset + 1)}

Requesters(reqs) == {reqs[i].ReplyToCh : i \in 1 .. Len(reqs)}

RequestOf(reqs, w) == reqs[CHOOSE i \in 1 .. Len(reqs) : reqs[i].ReplyToCh = w]

\* The responses bc.conn.Fetch(req) can return for a batch: one block (or none)
\* for every request of the batch.
Responses(reqs, allowed) ==
    {blocks \in [Workers -> AllBlocks] :
        \A w \in Workers :
            IF w \in Requesters(reqs)
                THEN blocks[w] \in BlockChoices(RequestOf(reqs, w).Offset) \cap allowed
                ELSE blocks[w] = NoBlock}

\* bc.conn.Fetch(req): a transport error, or (on an open connection) a response.
FetchOutcomes(e, transport, allowed) ==
    (IF transport \/ ~bc[e].connOpen THEN {NilResult(ErrTransport)} ELSE {})
        \cup (IF bc[e].connOpen
                 THEN {OkResult(blocks) :
                          blocks \in Responses(bc[e].fetchRequests, allowed)}
                 ELSE {})

\* consumer.SpawnExecutor
SpawnExecutor(b) ==
    [live |-> TRUE, conn |-> b, connOpen |-> TRUE, requestsClosed |-> FALSE,
     batcherPc |-> "run", batchRequest |-> <<>>, nilOrBatchRequestCh |-> FALSE,
     execPc |-> "range", fetchRequests |-> <<>>, replyIdx |-> 0,
     res |-> NilResult(ErrNil), rejecting |-> FALSE,
     lastErr |-> ErrNil, lastErrTime |-> LongAgo]

\* batchRequests, case fr, ok := <-bc.requestsCh with !ok: return, and the
\* deferred close(bc.batchRequestsCh).
BatcherExit(e) ==
    /\ ~panicked
    /\ bc[e].batcherPc = "run"
    /\ bc[e].requestsClosed
    /\ bc' = [bc EXCEPT ![e].batcherPc = "exited",
                        ![e].batchRequest = batchOnClose(@),
                        ![e].nilOrBatchRequestCh = FALSE]
    /\ UNCHANGED <<configVars, consumerVars, callVars, pcFields, assignmentCh,
                   userChans, closeChans, pumpPc, pumpLocals, fetchResultCh,
                   mapperVars, historyVars, httpVars, trackerVars, growthVars>>

\* A batcher that keeps the slice it has handed over.
resetBatch_keep(batchRequest) == batchRequest

\* batchRequest = nil, once the executor stage has picked the slice.
resetBatch(batchRequest) == <<>>

\* batchRequests, case nilOrBatchRequestCh <- batchRequest, received by
\* executeBatches' range, which then decides whether to reject the batch.
BatcherHandOver(e) ==
    /\ ~panicked
    /\ bc[e].batcherPc = "run"
    /\ bc[e].nilOrBatchRequestCh
    /\ bc[e].execPc = "range"
    /\ bc' = [bc EXCEPT
                ![e].fetchRequests = bc[e].batchRequest,
                ![e].batchRequest = resetBatch(@),
                ![e].nilOrBatchRequestCh = FALSE,
                ![e].execPc = IF rejectBatch(bc[e].lastErrTime) THEN "reply" ELSE "fetch",
                ![e].rejecting = rejectBatch(bc[e].lastErrTime),
                ![e].replyIdx = IF rejectBatch(bc[e].lastErrTime) THEN 1 ELSE 0,
                ![e].res = IF rejectBatch(bc[e].lastErrTime)
                              THEN NilResult(bc[e].lastErr) ELSE @]
    /\ UNCHANGED <<configVars, consumerVars, callVars, pcFields, assignmentCh,
                   userChans, closeChans, pumpPc, pumpLocals, fetchResultCh,
                   mapperVars, historyVars, httpVars, trackerVars, growthVars>>

\* executeBatches: res, lastErr = bc.conn.Fetch(req), and what follows an error.
\* transport: the connection can fail; allowed: the blocks the broker answers.
ExecFetch(e, transport, allowed) ==
    /\ ~panicked
    /\ bc[e].execPc = "fetch"
    /\ \E outcome \in FetchOutcomes(e, transport, allowed) :
        bc' = [bc EXCEPT
                 ![e].res = outcome,
                 ![e].lastErr = outcome.Err,
                 ![e].lastErrTime = IF outcome.Err # ErrNil THEN 0 ELSE @,
                 ![e].connOpen = IF outcome.Err # ErrNil THEN FALSE ELSE @,
                 ![e].execPc = "reply",
                 ![e].replyIdx = 1]
    /\ UNCHANGED <<configVars, consumerVars, callVars, pcFields, assignmentCh,
                   userChans, closeChans, pumpPc, pumpLocals, fetchResultCh,
                   mapperVars, historyVars, httpVars, trackerVars, growthVars>>

\* A fan-out loop that stops one request early.
moreReplies_short(idx, n) == idx + 1 < n

\* for _, fr := range fetchRequests: there is a request after the idx-th of n.
moreReplies(idx, n) == idx < n

\* executeBatches: fr.ReplyToCh <- fetchResult{...} for the next request of the
\* batch; after the last one the loop is back at its range.
ExecReply(e) ==
    /\ ~panicked
    /\ bc[e].execPc = "reply"
    /\ LET w == bc[e].fetchRequests[bc[e].replyIdx].ReplyToCh IN
        /\ Len(fetchResultCh[w]) < 1
        /\ fetchResultCh' = [fetchResultCh EXCEPT ![w] = Append(@, bc[e].res)]
        /\ unanswered' = [unanswered EXCEPT ![e] = @ \ {w}]
    /\ bc' = IF moreReplies(bc[e].replyIdx, Len(bc[e].fetchRequests))
                THEN [bc EXCEPT ![e].replyIdx = @ + 1]
                ELSE [bc EXCEPT ![e].execPc = "range",
                                ![e].fetchRequests = <<>>,
                                ![e].replyIdx = 0,
                                ![e].rejecting = FALSE,
                                ![e].res = NilResult(ErrNil)]
    /\ UNCHANGED <<configVars, consumerVars, callVars, pcFields, assignmentCh,
                   userChans, closeChans, pumpPc, pumpLocals, mapperVars,
                   concreteOffset, lastPushed, exitReason, lastForwardTime,
                   leadingPartials, cpCall, httpVars, trackerVars, growthVars>>

\* executeBatches: the range over the closed bc.batchRequestsCh ends.
ExecExit(e) ==
    /\ ~panicked
    /\ bc[e].execPc = "range"
    /\ bc[e].batcherPc = "exited"
    /\ bc[e].live
    /\ bc' = [bc EXCEPT ![e].execPc = "exited"]
    /\ UNCHANGED <<configVars, consumerVars, callVars, pcFields, assignmentCh,
                   userChans, closeChans, pumpPc, pumpLocals, fetchResultCh,
                   mapperVars, historyVars, httpVars, trackerVars, growthVars>>

\* ------------------------------------------------------------------ mapper

References(e) == {w \in Workers : assignments[w] = e}

\* A mapper that takes every worker for the last one of its executor.
isLastWorker_always(e, w) == TRUE

\* The reference count of e drops to zero when w detaches.
isLastWorker(e, w) == References(e) = {w}

\* The executor the mapper has for a broker connection.  A connection closed
\* after a transport error is not resolved to again: the resolver returns a
\* fresh connection, for which there is no executor yet.
ExecutorsFor(b) ==
    {e \in Executors : bc[e].live /\ bc[e].conn = b /\ bc[e].connOpen
                        /\ ~bc[e].requestsClosed}

\* brokerConsumer objects nothing refers to any more.
FreeSlots ==
    {e \in Executors :
        /\ ~bc[e].live
        /\ \A w \in Workers :
            /\ assignments[w] # e
            /\ assignedFetchRequestCh[w] # e
            /\ nilOrFetchRequestsCh[w] # e
            /\ e \notin Range(assignmentCh[w])}

MinOf(S) == CHOOSE x \in S : \A y \in S : x <= y

\* brokerConsumer.Stop: close(bc.requestsCh); bc.wg.Wait() is MapperStopDone.
Stop(bcs, e) == [bcs EXCEPT ![e].requestsClosed = TRUE]

\* WorkerStopped(w): detach; stop the executor when its last worker leaves.
MapperHandleStop(w) ==
    /\ ~panicked
    /\ mapperPc = "idle"
    /\ changes[w] = "stop"
    /\ changes' = [changes EXCEPT ![w] = "none"]
    /\ assignments' = [assignments EXCEPT ![w] = NilExecutor]
    /\ LET old == assignments[w] IN
        IF old # NilExecutor /\ isLastWorker(old, w)
            THEN /\ bc' = Stop(bc, old)
                 /\ mapperPc' = "stopping"
                 /\ mapperE' = old
            ELSE UNCHANGED <<bc, mapperPc, mapperE>>
    /\ UNCHANGED <<configVars, consumerVars, callVars, pcFields, assignmentCh,
                   userChans, closeChans, pumpPc, pumpLocals, fetchResultCh,
                   mapperW, historyVars, httpVars, trackerVars, growthVars>>

\* WorkerSpawned(w) and WorkerReassign(w): resolve the worker's broker, spawn an
\* executor if there is none for it, detach from the old executor if it differs
\* (stopping it when its last worker leaves), attach to the new one.
MapperHandleAssign(w, leaders) ==
    /\ ~panicked
    /\ mapperPc = "idle"
    /\ changes[w] = "assign"
    /\ changes' = [changes EXCEPT ![w] = "none"]
    /\ mapperW' = w
    /\ \E b \in leaders :
        /\ b # NoBroker => (ExecutorsFor(b) # {} \/ FreeSlots # {})
        /\ LET old == assignments[w]
               new == IF b = NoBroker THEN NilExecutor
                      ELSE IF ExecutorsFor(b) # {} THEN MinOf(ExecutorsFor(b))
                      ELSE MinOf(FreeSlots)
               spawned == IF new # NilExecutor /\ ~bc[new].live
                             THEN [bc EXCEPT ![new] = SpawnExecutor(b)] ELSE bc
               orphaned == old # NilExecutor /\ old # new /\ isLastWorker(old, w)
           IN
            /\ assignments' = [assignments EXCEPT ![w] = new]
            /\ bc' = IF orphaned THEN Stop(spawned, old) ELSE spawned
            /\ unanswered' = IF new # NilExecutor /\ ~bc[new].live
                                THEN [unanswered EXCEPT ![new] = {}] ELSE unanswered
            /\ mapperPc' = IF orphaned THEN "stopping" ELSE "assigning"
            /\ mapperE' = IF orphaned THEN old ELSE NilExecutor
    /\ UNCHANGED <<configVars, consumerVars, callVars, pcFields, assignmentCh,
                   userChans, closeChans, pumpPc, pumpLocals, fetchResultCh,
                   concreteOffset, lastPushed, exitReason, lastForwardTime,
                   leadingPartials, cpCall, httpVars, trackerVars, growthVars>>

\* Executor.Stop returns: both goroutines of the executor have exited.
MapperStopDone ==
    /\ ~panicked
    /\ mapperPc = "stopping"
    /\ bc[mapperE].batcherPc = "exited"
    /\ bc[mapperE].execPc = "exited"
    /\ bc' = [bc EXCEPT ![mapperE] = StoppedBC]
    /\ mapperE' = NilExecutor
    /\ mapperPc' = IF mapperW # NoWorker THEN "assigning" ELSE "idle"
    /\ UNCHANGED <<configVars, consumerVars, callVars, pcFields, assignmentCh,
                   userChans, closeChans, pumpPc, pumpLocals, fetchResultCh,
                   changes, mapperW, assignments, historyVars, httpVars, trackerVars, growthVars>>

\* The assignment is pushed onto the worker's assignment channel (capacity 1).
MapperAssign ==
    /\ ~panicked
    /\ mapperPc = "assigning"
    /\ Len(assignmentCh[mapperW]) < 1
    /\ assignmentCh' = [assignmentCh EXCEPT ![mapperW] = Append(@, assignments[mapperW])]
    /\ mapperPc' = "idle"
    /\ mapperW' = NoWorker
    /\ UNCHANGED <<configVars, consumerVars, callVars, pcFields, userChans,
                   closeChans, pumpPc, pumpLocals, fetchResultCh, bc, changes,
                   mapperE, assignments, historyVars, httpVars, trackerVars, growthVars>>


\* ---------------------------------------------------------------- consumer

\* consumer.spawnPartitionConsumer is part of ConsumePartition below: the new
\* worker's fields, and go cp.pullMessages().

\* consumer.ConsumePartition up to its send to the mapper: the starting offset,
\* the lock, the check of the children map, the spawn of the worker.  A call for
\* a topic/partition that is in the map returns the configuration error.
\* A check of the children map that never finds the topic/partition.
alreadyConsumed_never(t) == FALSE

\* if _, ok := c.children[tp]; ok
alreadyConsumed(t) == children[t] # NoWorker

ConsumePartition(t, requested, oldestOffset, newestOffset) ==
    /\ ~panicked
    /\ ccPc = "none"
    /\ childrenLock = "free"
    /\ cpCall' = [requested |-> requested, oldestOffset |-> oldestOffset,
                  newestOffset |-> newestOffset]
    /\ IF alreadyConsumed(t)
          THEN /\ cpErr' = ConfigurationError
               /\ UNCHANGED <<pool, childrenLock, cpPc, tp, offset, fetchSize,
                              pumpPc, concreteOffset>>
          ELSE /\ pool # {}
               /\ LET w == CHOOSE x \in pool : \A y \in pool : x <= y
                      chosen == chooseStartingOffset(requested, oldestOffset,
                                                     newestOffset)
                  IN
                   /\ pool' = pool \ {w}
                   /\ childrenLock' = "ConsumePartition"
                   /\ cpPc' = [cpPc EXCEPT ![w] = "sendSpawned"]
                   /\ tp' = [tp EXCEPT ![w] = t]
                   /\ offset' = [offset EXCEPT ![w] = chosen]
                   /\ fetchSize' = [fetchSize EXCEPT ![w] = FetchDefault]
                   /\ pumpPc' = [pumpPc EXCEPT ![w] = "select"]
                   /\ concreteOffset' = [concreteOffset EXCEPT ![w] = chosen]
                   /\ cpErr' = ErrNil
    /\ UNCHANGED <<returnErrors, panicked, children, closeVars, ccVars,
                   assignmentCh, userChans, closeChans, pumpLocals, fetchResultCh,
                   bc, mapperVars, lastPushed, exitReason, lastForwardTime,
                   leadingPartials, unanswered, httpVars, trackerVars, growthVars>>

\* consumer.ConsumePartition from c.mapper.WorkerSpawned() <- pc to its return;
\* the lock is held until then.
ConsumePartitionSend(w) ==
    /\ ~panicked
    /\ cpPc[w] = "sendSpawned"
    /\ changes' = WorkerSpawned(w)
    /\ children' = [children EXCEPT ![tp[w]] = w]
    /\ childrenLock' = "free"
    /\ cpPc' = [cpPc EXCEPT ![w] = "returned"]
    /\ UNCHANGED <<configVars, cpErr, closeVars, ccVars, pcFields, assignmentCh,
                   userChans, closeChans, pumpPc, pumpLocals, fetchResultCh, bc,
                   mapperPc, mapperW, mapperE, assignments, historyVars, httpVars, trackerVars, growthVars>>

\* partitionConsumer.Close: close(pc.closingCh).  Close is called once on a
\* handle; the close of a channel that Consumer.Close has closed panics.
CloseBegin(w) ==
    /\ ~panicked
    /\ cpPc[w] = "returned"
    /\ closePc[w] = "none"
    /\ IF closingCh[w]
          THEN /\ panicked' = TRUE
               /\ UNCHANGED <<returnErrors, pool, closingCh, closePc>>
          ELSE /\ closingCh' = [closingCh EXCEPT ![w] = TRUE]
               /\ closePc' = [closePc EXCEPT ![w] = "waitClosed"]
               /\ UNCHANGED configVars
    /\ UNCHANGED <<consumerVars, cpVars, closeErrors, ccVars, pcFields,
                   assignmentCh, userChans, messagesClosed, errorsClosed, closedCh,
                   pumpPc, pumpLocals, fetchResultCh, bc, mapperVars, historyVars, httpVars, trackerVars, growthVars>>

\* A Close that does not wait for the pump.
closedChReceives_atOnce(closed) == TRUE

\* <-pc.closedCh returns once the pump has closed the channel.
closedChReceives(closed) == closed > 0

\* partitionConsumer.Close: <-pc.closedCh, then the range over pc.errorsCh,
\* which the pump has closed by then.
CloseDrain(w) ==
    /\ ~panicked
    /\ closePc[w] = "waitClosed"
    /\ closedChReceives(closedCh[w])
    /\ closeErrors' = [closeErrors EXCEPT ![w] = errorsCh[w]]
    /\ errorsCh' = [errorsCh EXCEPT ![w] = <<>>]
    /\ closePc' = [closePc EXCEPT ![w] = "lock"]
    /\ UNCHANGED <<configVars, consumerVars, cpVars, ccVars, pcFields,
                   assignmentCh, messagesCh, closeChans, pumpPc, pumpLocals,
                   fetchResultCh, bc, mapperVars, historyVars, httpVars, trackerVars, growthVars>>

\* partitionConsumer.Close: delete(pc.consumer.children, pc.tp) under the lock.
CloseDelete(w) ==
    /\ ~panicked
    /\ closePc[w] = "lock"
    /\ childrenLock = "free"
    /\ children' = [children EXCEPT ![tp[w]] = NoWorker]
    /\ closePc' = [closePc EXCEPT ![w] = "sendStopped"]
    /\ UNCHANGED <<configVars, childrenLock, cpVars, closeErrors, ccVars, pcFields,
                   assignmentCh, userChans, closeChans, pumpPc, pumpLocals,
                   fetchResultCh, bc, mapperVars, historyVars, httpVars, trackerVars, growthVars>>

\* partitionConsumer.Close: pc.consumer.mapper.WorkerStopped() <- pc, and return.
CloseSend(w) ==
    /\ ~panicked
    /\ closePc[w] = "sendStopped"
    /\ changes' = WorkerStopped(w)
    /\ closePc' = [closePc EXCEPT ![w] = "returned"]
    /\ UNCHANGED <<configVars, consumerVars, cpVars, closeErrors, ccVars, pcFields,
                   assignmentCh, userChans, closeChans, pumpPc, pumpLocals,
                   fetchResultCh, bc, mapperPc, mapperW, mapperE, assignments,
                   historyVars, httpVars, trackerVars, growthVars>>

Children == {children[t] : t \in TPs} \ {NoWorker}

\* consumer.Close: c.childrenLock.Lock().  It is called once, and
\* ConsumePartition is not called afterwards.
ConsumerCloseBegin ==
    /\ ~panicked
    /\ ccPc = "none"
    /\ childrenLock = "free"
    /\ childrenLock' = "Close"
    /\ ccPc' = "loop"
    /\ UNCHANGED <<configVars, children, cpVars, closeVars, ccCur, ccDone, pcFields,
                   assignmentCh, userChans, closeChans, pumpPc, pumpLocals,
                   fetchResultCh, bc, mapperVars, historyVars, httpVars, trackerVars, growthVars>>

\* consumer.Close: close(pc.closingCh) for the next child; the close of a
\* channel that the child's Close has closed panics.
ConsumerCloseChild(w) ==
    /\ ~panicked
    /\ ccPc = "loop"
    /\ w \in Children \ ccDone
    /\ IF closingCh[w]
          THEN /\ panicked' = TRUE
               /\ UNCHANGED <<returnErrors, pool, closingCh, ccCur, ccPc>>
          ELSE /\ closingCh' = [closingCh EXCEPT ![w] = TRUE]
               /\ ccCur' = w
               /\ ccPc' = "wait"
               /\ UNCHANGED configVars
    /\ UNCHANGED <<consumerVars, cpVars, closeVars, ccDone, pcFields,
                   assignmentCh, userChans, messagesClosed, errorsClosed, closedCh,
                   pumpPc, pumpLocals, fetchResultCh, bc, mapperVars, historyVars, httpVars, trackerVars, growthVars>>

\* consumer.Close: <-pc.closedCh and c.mapper.WorkerStopped() <- pc.
ConsumerCloseWait ==
    /\ ~panicked
    /\ ccPc = "wait"
    /\ closedCh[ccCur] > 0
    /\ changes' = WorkerStopped(ccCur)
    /\ ccDone' = ccDone \cup {ccCur}
    /\ ccCur' = NoWorker
    /\ ccPc' = "loop"
    /\ UNCHANGED <<configVars, consumerVars, cpVars, closeVars, pcFields,
                   assignmentCh, userChans, closeChans, pumpPc, pumpLocals,
                   fetchResultCh, bc, mapperPc, mapperW, mapperE, assignments,
                   historyVars, httpVars, trackerVars, growthVars>>

\* consumer.Close: c.childrenLock.Unlock() after the loop.
ConsumerCloseUnlock ==
    /\ ~panicked
    /\ ccPc = "loop"
    /\ Children \subseteq ccDone
    /\ childrenLock' = "free"
    /\ ccPc' = "mapperStop"
    /\ UNCHANGED <<configVars, children, cpVars, closeVars, ccCur, ccDone, pcFields,
                   assignmentCh, userChans, closeChans, pumpPc, pumpLocals,
                   fetchResultCh, bc, mapperVars, historyVars, httpVars, trackerVars, growthVars>>

\* consumer.Close: c.mapper.Stop(), which returns when the mapper's loop has
\* handled what it was given.
ConsumerCloseMapperStop ==
    /\ ~panicked
    /\ ccPc = "mapperStop"
    /\ mapperPc = "idle"
    /\ \A w \in Workers : changes[w] = "none"
    /\ mapperPc' = "stopped"
    /\ ccPc' = "returned"
    /\ UNCHANGED <<configVars, consumerVars, cpVars, closeVars, ccCur, ccDone,
                   pcFields, assignmentCh, userChans, closeChans, pumpPc,
                   pumpLocals, fetchResultCh, bc, changes, mapperW, mapperE,
                   assignments, historyVars, httpVars, trackerVars, growthVars>>

\* ------------------------------------------------------------------- user

\* The user receives from handle.Messages().
UserRecvMessage(w) ==
    /\ ~panicked
    /\ messagesCh[w] # <<>>
    /\ messagesCh' = [messagesCh EXCEPT ![w] = Tail(@)]
    /\ UNCHANGED <<configVars, consumerVars, callVars, pcFields, assignmentCh,
                   errorsCh, closeChans, pumpPc, pumpLocals, fetchResultCh, bc,
                   mapperVars, historyVars, httpVars, trackerVars, growthVars>>

\* The user receives from handle.Errors().
UserRecvError(w) ==
    /\ ~panicked
    /\ errorsCh[w] # <<>>
    /\ errorsCh' = [errorsCh EXCEPT ![w] = Tail(@)]
    /\ UNCHANGED <<configVars, consumerVars, callVars, pcFields, assignmentCh,
                   messagesCh, closeChans, pumpPc, pumpLocals, fetchResultCh, bc,
                   mapperVars, historyVars, httpVars, trackerVars, growthVars>>

\* ---------------------------------------------------------- offset tracker
\* The offset tracker is not part of the sources at hand; it is modelled from
\* the description of its operations.  Every offset below B is acknowledged,
\* the sparse acknowledgements lie strictly above B.

\* While B itself is acknowledged, B advances: it stops at the first gap.
RECURSIVE compact(_)
compact(t) ==
    IF t.B \in t.sparse
        THEN compact([B |-> t.B + 1, sparse |-> t.sparse \ {t.B}])
        ELSE t

\* A tracker that inserts the offset and never advances its base.
onAck_uncompacted(t, o) ==
    IF o < t.B THEN t ELSE [B |-> t.B, sparse |-> t.sparse \cup {o}]

\* onAck(offset): an offset below B is ignored, any other is inserted, and the
\* state is compacted.
onAck(t, o) ==
    IF o < t.B THEN t ELSE compact([B |-> t.B, sparse |-> t.sparse \cup {o}])

\* encode(sparse): the runs of consecutive offsets, each as the distance from
\* the end of the run before it (from B for the first) and its length.
RECURSIVE encode(_, _)
encode(prev, S) ==
    IF S = {}
        THEN <<>>
        ELSE LET lo == MinOf(S)
                 hi == CHOOSE n \in S : /\ \A k \in lo..n : k \in S
                                        /\ (n + 1) \notin S
             IN  <<[delta |-> lo - prev, len |-> hi - lo + 1]>>
                     \o encode(hi + 1, S \ (lo..hi))

\* decode(meta): the offsets of the runs, the inverse of encode.
RECURSIVE decode(_, _)
decode(prev, meta) ==
    IF meta = <<>>
        THEN {}
        ELSE LET lo == prev + Head(meta).delta
                 end == lo + Head(meta).len
             IN  (lo..(end - 1)) \cup decode(end, Tail(meta))

\* committable(): the pair to commit, the base and the encoded sparse acks.
committable(t) == [B |-> t.B, meta |-> encode(t.B, t.sparse)]

\* An acknowledgement for offset o arrives.
OnAck(o) ==
    /\ tracker' = onAck(tracker, o)
    /\ ackedOffset' = o
    /\ UNCHANGED <<configVars, consumerVars, callVars, pcFields, assignmentCh,
                   userChans, closeChans, pumpPc, pumpLocals, fetchResultCh, bc,
                   mapperVars, historyVars, httpVars, growthVars>>

\* ------------------------------------------------------------- fetch size
\* parseFetchResult on an empty message set with a partial trailing message:
\* what it does to pc.fetchSize.
ParsePartialTrailing ==
    /\ growth' = [growth EXCEPT !.fetchSize =
                     IF growth.Max > 0 /\ @ = growth.Max
                         THEN @ ELSE growFetchSize(@, growth.Max)]
    /\ UNCHANGED <<configVars, consumerVars, callVars, pcFields, assignmentCh,
                   userChans, closeChans, pumpPc, pumpLocals, fetchResultCh, bc,
                   mapperVars, historyVars, httpVars, trackerVars>>

\* parseFetchResult on a message set: pc.fetchSize = fetch.Default.
ParseMessages ==
    /\ growth' = [growth EXCEPT !.fetchSize = growth.Default]
    /\ UNCHANGED <<configVars, consumerVars, callVars, pcFields, assignmentCh,
                   userChans, closeChans, pumpPc, pumpLocals, fetchResultCh, bc,
                   mapperVars, historyVars, httpVars, trackerVars>>

\* ------------------------------------------------------------ HTTP server

\* The HTTP server serves the consume request.
HandleConsume ==
    /\ ~httpResponse.written
    /\ httpResponse' = handleConsume(httpRequest)
    /\ UNCHANGED <<configVars, consumerVars, callVars, pcFields, assignmentCh,
                   userChans, closeChans, pumpPc, pumpLocals, fetchResultCh, bc,
                   mapperVars, historyVars, httpRequest, trackerVars, growthVars>>

\* ------------------------------------------------------------------- time

\* One unit of time passes: the timers run down, the recorded times get older.
Tick ==
    /\ ~panicked
    /\ nilOrReassignRetryTimerCh' =
           [w \in Workers |-> IF nilOrReassignRetryTimerCh[w] > 0
                                 THEN nilOrReassignRetryTimerCh[w] - 1
                                 ELSE nilOrReassignRetryTimerCh[w]]
    /\ lastReassignTime' =
           [w \in Workers |-> Min(lastReassignTime[w] + 1, LongAgo)]
    /\ bc' = [e \in Executors |->
                 [bc[e] EXCEPT !.lastErrTime = Min(@ + 1, LongAgo)]]
    /\ lastForwardTime' =
           [w \in Workers |-> Min(lastForwardTime[w] + 1, LongAgo)]
    /\ UNCHANGED <<configVars, consumerVars, callVars, pcFields, assignmentCh,
                   userChans, closeChans, pumpPc, assignedFetchRequestCh,
                   nilOrFetchRequestsCh, nilOrFetchResultsCh, nilOrMessagesCh,
                   fetchedMessages, currMessageIdx, fetchResultCh, mapperVars,
                   concreteOffset, lastPushed, exitReason, leadingPartials, cpCall,
                   unanswered, httpVars, trackerVars, growthVars>>

\* --------------------------------------------------------- specifications
Requested == {OffsetNewest, OffsetOldest} \cup (0 .. (MaxOffset + 1))

ErrorBlocks == {NoBlock, ErrBlock(ErrOffsetOutOfRange),
                ErrBlock(ErrNotLeaderForPartition)}

OutOfRangeBlocks == {ErrBlock(ErrOffsetOutOfRange)}

SingleBlocks == {MsgBlock(<<a>>, FALSE) : a \in 0 .. MaxOffset}

EmptyBlocks == {MsgBlock(<<>>, FALSE)}

Init == InitWith(Workers, BOOLEAN)

\* The whole system: every call of the user, every answer of the cluster.
Next ==
    \/ \E t \in TPs, r \in Requested, o \in 0 .. MaxOffset, n \in 0 .. MaxOffset :
           o <= n /\ ConsumePartition(t, r, o, n)
    \/ \E w \in Workers : ConsumePartitionSend(w)
    \/ \E w \in Workers : CloseBegin(w)
    \/ \E w \in Workers : CloseDrain(w)
    \/ \E w \in Workers : CloseDelete(w)
    \/ \E w \in Workers : CloseSend(w)
    \/ ConsumerCloseBegin
    \/ \E w \in Workers : ConsumerCloseChild(w)
    \/ ConsumerCloseWait
    \/ ConsumerCloseUnlock
    \/ ConsumerCloseMapperStop
    \/ \E w \in Workers : PumpAssignment(w)
    \/ \E w \in Workers : PumpSendRequest(w)
    \/ \E w \in Workers : PumpFetchResult(w)
    \/ \E w \in Workers : PumpPushMessage(w)
    \/ \E w \in Workers : PumpRetryTimer(w)
    \/ \E w \in Workers : PumpClosing(w)
    \/ \E w \in Workers : PumpCloseMessages(w)
    \/ \E w \in Workers : PumpCloseErrors(w)
    \/ \E w \in Workers : PumpCloseClosed(w)
    \/ \E e \in Executors : BatcherExit(e)
    \/ \E e \in Executors : BatcherHandOver(e)
    \/ \E e \in Executors : ExecFetch(e, TRUE, AllBlocks)
    \/ \E e \in Executors : ExecReply(e)
    \/ \E e \in Executors : ExecExit(e)
    \/ \E w \in Workers : MapperHandleStop(w)
    \/ \E w \in Workers : MapperHandleAssign(w, Brokers \cup {NoBroker})
    \/ MapperStopDone
    \/ MapperAssign
    \/ \E w \in Workers : UserRecvMessage(w)
    \/ \E w \in Workers : UserRecvError(w)
    \/ Tick
    \/ HandleConsume

Spec == Init /\ [][Next]_vars

\* One partition consumer that is never closed, errors not returned to the
\* user: every answer a broker can give to a fetch, leaders that change.
InitPump == InitWith({1}, {FALSE})

NextPump ==
    \/ \E r \in 0 .. MaxOffset :
           ~alreadyConsumed("p0") /\ ConsumePartition("p0", r, 0, MaxOffset)
    \/ \E w \in Workers : ConsumePartitionSend(w)
    \/ \E w \in Workers : PumpAssignment(w)
    \/ \E w \in Workers : PumpSendRequest(w)
    \/ \E w \in Workers : PumpFetchResult(w)
    \/ \E w \in Workers : PumpPushMessage(w)
    \/ \E w \in Workers : PumpRetryTimer(w)
    \/ \E w \in Workers : PumpCloseMessages(w)
    \/ \E w \in Workers : PumpCloseErrors(w)
    \/ \E w \in Workers : PumpCloseClosed(w)
    \/ \E e \in Executors : BatcherExit(e)
    \/ \E e \in Executors : BatcherHandOver(e)
    \/ \E e \in Executors : ExecFetch(e, FALSE, AllBlocks)
    \/ \E e \in Executors : ExecReply(e)
    \/ \E e \in Executors : ExecExit(e)
    \/ \E w \in Workers : MapperHandleAssign(w, Brokers)
    \/ MapperStopDone
    \/ MapperAssign
    \/ \E w \in Workers : UserRecvMessage(w)
    \/ Tick

SpecPump == InitPump /\ [][NextPump]_vars

\* One partition consumer with errors returned to the user, closed by its
\* handle or by the consumer at any moment; no broker at times; brokers that
\* answer one message or that the offset is out of range.
InitClose == InitWith({1}, {TRUE})

NextClose ==
    \/ ~alreadyConsumed("p0") /\ ConsumePartition("p0", OffsetNewest, 0, MaxOffset)
    \/ \E w \in Workers : ConsumePartitionSend(w)
    \/ \E w \in Workers : CloseBegin(w)
    \/ \E w \in Workers : CloseDrain(w)
    \/ \E w \in Workers : CloseDelete(w)
    \/ \E w \in Workers : CloseSend(w)
    \/ ConsumerCloseBegin
    \/ \E w \in Workers : ConsumerCloseChild(w)
    \/ ConsumerCloseWait
    \/ ConsumerCloseUnlock
    \/ ConsumerCloseMapperStop
    \/ \E w \in Workers : PumpAssignment(w)
    \/ \E w \in Workers : PumpSendRequest(w)
    \/ \E w \in Workers : PumpFetchResult(w)
    \/ \E w \in Workers : PumpPushMessage(w)
    \/ \E w \in Workers : PumpRetryTimer(w)
    \/ \E w \in Workers : PumpClosing(w)
    \/ \E w \in Workers : PumpCloseMessages(w)
    \/ \E w \in Workers : PumpCloseErrors(w)
    \/ \E w \in Workers : PumpCloseClosed(w)
    \/ \E e \in Executors : BatcherExit(e)
    \/ \E e \in Executors : BatcherHandOver(e)
    \/ \E e \in Executors : ExecFetch(e, FALSE, OutOfRangeBlocks \cup SingleBlocks)
    \/ \E e \in Executors : ExecReply(e)
    \/ \E e \in Executors : ExecExit(e)
    \/ \E w \in Workers : MapperHandleStop(w)
    \/ \E w \in Workers : MapperHandleAssign(w, {"b1", NoBroker})
    \/ MapperStopDone
    \/ MapperAssign
    \/ \E w \in Workers : UserRecvMessage(w)
    \/ \E w \in Workers : UserRecvError(w)
    \/ Tick

SpecClose == InitClose /\ [][NextClose]_vars

\* One partition consumer that is never closed, errors returned to the user:
\* connections that fail; no broker at times; brokers that answer one message,
\* an error block or no block.
InitErrors == InitWith({1}, {TRUE})

NextErrors ==
    \/ ~alreadyConsumed("p0") /\ ConsumePartition("p0", OffsetNewest, 0, MaxOffset)
    \/ \E w \in Workers : ConsumePartitionSend(w)
    \/ \E w \in Workers : PumpAssignment(w)
    \/ \E w \in Workers : PumpSendRequest(w)
    \/ \E w \in Workers : PumpFetchResult(w)
    \/ \E w \in Workers : PumpPushMessage(w)
    \/ \E w \in Workers : PumpRetryTimer(w)
    \/ \E w \in Workers : PumpCloseMessages(w)
    \/ \E w \in Workers : PumpCloseErrors(w)
    \/ \E w \in Workers : PumpCloseClosed(w)
    \/ \E e \in Executors : BatcherExit(e)
    \/ \E e \in Executors : BatcherHandOver(e)
    \/ \E e \in Executors : ExecFetch(e, TRUE, ErrorBlocks \cup SingleBlocks)
    \/ \E e \in Executors : ExecReply(e)
    \/ \E e \in Executors : ExecExit(e)
    \/ \E w \in Workers : MapperHandleAssign(w, {"b1", NoBroker})
    \/ MapperStopDone
    \/ MapperAssign
    \/ \E w \in Workers : UserRecvMessage(w)
    \/ \E w \in Workers : UserRecvError(w)
    \/ Tick

SpecErrors == InitErrors /\ [][NextErrors]_vars

\* The same partition consumer and broker failures, for a user who asked for
\* the errors and for one who did not.
InitReport == InitWith({1}, BOOLEAN)

SpecReport == InitReport /\ [][NextErrors]_vars

\* Two handles over two partitions, opened (also for a partition that is being
\* consumed) and closed in any order; one broker that has no messages.
InitConsumer == InitWith(Workers, {FALSE})

NextConsumer ==
    \/ \E t \in TPs : ConsumePartition(t, OffsetOldest, 0, 0)
    \/ \E w \in Workers : ConsumePartitionSend(w)
    \/ \E w \in Workers : CloseBegin(w)
    \/ \E w \in Workers : CloseDrain(w)
    \/ \E w \in Workers : CloseDelete(w)
    \/ \E w \in Workers : CloseSend(w)
    \/ \E w \in Workers : PumpAssignment(w)
    \/ \E w \in Workers : PumpSendRequest(w)
    \/ \E w \in Workers : PumpFetchResult(w)
    \/ \E w \in Workers : PumpClosing(w)
    \/ \E w \in Workers : PumpCloseMessages(w)
    \/ \E w \in Workers : PumpCloseErrors(w)
    \/ \E w \in Workers : PumpCloseClosed(w)
    \/ \E e \in Executors : BatcherExit(e)
    \/ \E e \in Executors : BatcherHandOver(e)
    \/ \E e \in Executors : ExecFetch(e, FALSE, EmptyBlocks)
    \/ \E e \in Executors : ExecReply(e)
    \/ \E e \in Executors : ExecExit(e)
    \/ \E w \in Workers : MapperHandleStop(w)
    \/ \E w \in Workers : MapperHandleAssign(w, {"b1"})
    \/ MapperStopDone
    \/ MapperAssign

SpecConsumer == InitConsumer /\ [][NextConsumer]_vars

\* Two partition consumers that share the executors of one broker and are never
\* closed: the connection of the first executor can fail, the broker has no
\* messages.
InitExec == InitWith(Workers, {FALSE})

NextExec ==
    \/ \E t \in TPs : ~alreadyConsumed(t) /\ ConsumePartition(t, OffsetOldest, 0, 0)
    \/ \E w \in Workers : ConsumePartitionSend(w)
    \/ \E w \in Workers : PumpAssignment(w)
    \/ \E w \in Workers : PumpSendRequest(w)
    \/ \E w \in Workers : PumpFetchResult(w)
    \/ \E w \in Workers : PumpRetryTimer(w)
    \/ \E e \in Executors : BatcherExit(e)
    \/ \E e \in Executors : BatcherHandOver(e)
    \/ \E e \in Executors : ExecFetch(e, e = 1, EmptyBlocks)
    \/ \E e \in Executors : ExecReply(e)
    \/ \E e \in Executors : ExecExit(e)
    \/ \E w \in Workers : MapperHandleAssign(w, {"b1"})
    \/ MapperStopDone
    \/ MapperAssign
    \/ Tick

SpecExec == InitExec /\ [][NextExec]_vars

\* The blocks of a broker whose log holds messages that fit in no fetch.
PartialBlocks == {MsgBlock(<<>>, TRUE)}

\* One worker on a healthy broker that answers message sets, empty sets and
\* cut messages; the user reads both channels; errors may be returned or not.
InitFetch == InitWith({1}, BOOLEAN)

NextFetch ==
    \/ \E o \in 0 .. MaxOffset :
           ~alreadyConsumed("p0") /\ ConsumePartition("p0", o, 0, MaxOffset)
    \/ \E w \in Workers : ConsumePartitionSend(w)
    \/ \E w \in Workers : PumpAssignment(w)
    \/ \E w \in Workers : PumpSendRequest(w)
    \/ \E w \in Workers : PumpFetchResult(w)
    \/ \E w \in Workers : PumpPushMessage(w)
    \/ \E e \in Executors : BatcherHandOver(e)
    \/ \E e \in Executors :
           ExecFetch(e, FALSE, PartialBlocks \cup EmptyBlocks \cup SingleBlocks)
    \/ \E e \in Executors : ExecReply(e)
    \/ \E w \in Workers : MapperHandleAssign(w, {"b1"})
    \/ MapperAssign
    \/ \E w \in Workers : UserRecvMessage(w)
    \/ \E w \in Workers : UserRecvError(w)

SpecFetch == InitFetch /\ [][NextFetch]_vars

\* Two partitions consumed from every requested offset, whatever the oldest and
\* newest offsets the client answers, on a healthy broker with nothing to read.
InitStart == InitWith(Workers, {FALSE})

NextStart ==
    \/ \E t \in TPs, r \in Requested, o \in 0 .. MaxOffset, n \in 0 .. MaxOffset :
           o <= n /\ ~alreadyConsumed(t) /\ ConsumePartition(t, r, o, n)
    \/ \E w \in Workers : ConsumePartitionSend(w)
    \/ \E w \in Workers : PumpAssignment(w)
    \/ \E w \in Workers : PumpSendRequest(w)
    \/ \E w \in Workers : PumpFetchResult(w)
    \/ \E e \in Executors : BatcherHandOver(e)
    \/ \E e \in Executors : ExecFetch(e, FALSE, EmptyBlocks)
    \/ \E e \in Executors : ExecReply(e)
    \/ \E w \in Workers : MapperHandleAssign(w, {"b1"})
    \/ MapperAssign

SpecStart == InitStart /\ [][NextStart]_vars

\* Two partition consumers, the first of which the user closes, while the
\* leaders move between two brokers and the connection of the first executor
\* fails.
InitMapper == InitWith(Workers, {FALSE})

NextMapper ==
    \/ \E t \in TPs : ~alreadyConsumed(t) /\ ConsumePartition(t, OffsetOldest, 0, 0)
    \/ \E w \in Workers : ConsumePartitionSend(w)
    \/ CloseBegin(1)
    \/ CloseDrain(1)
    \/ CloseDelete(1)
    \/ CloseSend(1)
    \/ \E w \in Workers : PumpAssignment(w)
    \/ \E w \in Workers : PumpSendRequest(w)
    \/ \E w \in Workers : PumpFetchResult(w)
    \/ \E w \in Workers : PumpClosing(w)
    \/ \E w \in Workers : PumpCloseMessages(w)
    \/ \E w \in Workers : PumpCloseErrors(w)
    \/ \E w \in Workers : PumpCloseClosed(w)
    \/ \E e \in Executors : BatcherExit(e)
    \/ \E e \in Executors : BatcherHandOver(e)
    \/ \E e \in Executors : ExecFetch(e, e = 1, EmptyBlocks)
    \/ \E e \in Executors : ExecReply(e)
    \/ \E e \in Executors : ExecExit(e)
    \/ \E w \in Workers : MapperHandleStop(w)
    \/ \E w \in Workers : MapperHandleAssign(w, Brokers)
    \/ MapperStopDone
    \/ MapperAssign

SpecMapper == InitMapper /\ [][NextMapper]_vars

\* The consume endpoint, for every request and every outcome of pxy.Consume.
InitHTTP ==
    InitServer({1}, {FALSE}, HttpRequests, {[Default |-> FetchDefault, Max |-> FetchMax]})

NextHTTP == HandleConsume

SpecHTTP == InitHTTP /\ [][NextHTTP]_vars

\* The offset tracker of one partition, for every order of acknowledgements.
InitTracker == InitWith({1}, {FALSE})

NextTracker == \E o \in (InitialBase - 1)..MaxAck : OnAck(o)

SpecTracker == InitTracker /\ [][NextTracker]_vars

\* One partition consumer, closed by its handle at any moment, on a cluster
\* that has no leader at times and whose connections fail.  Time passes, and
\* the pump's select takes a branch that stays ready.
InitRetry == InitWith({1}, {FALSE})

NextRetry ==
    \/ ~alreadyConsumed("p0") /\ ConsumePartition("p0", OffsetNewest, 0, MaxOffset)
    \/ \E w \in Workers : ConsumePartitionSend(w)
    \/ \E w \in Workers : CloseBegin(w)
    \/ \E w \in Workers : CloseDrain(w)
    \/ \E w \in Workers : CloseDelete(w)
    \/ \E w \in Workers : CloseSend(w)
    \/ \E w \in Workers : PumpAssignment(w)
    \/ \E w \in Workers : PumpSendRequest(w)
    \/ \E w \in Workers : PumpFetchResult(w)
    \/ \E w \in Workers : PumpRetryTimer(w)
    \/ \E w \in Workers : PumpClosing(w)
    \/ \E w \in Workers : PumpCloseMessages(w)
    \/ \E w \in Workers : PumpCloseErrors(w)
    \/ \E w \in Workers : PumpCloseClosed(w)
    \/ \E e \in Executors : BatcherExit(e)
    \/ \E e \in Executors : BatcherHandOver(e)
    \/ \E e \in Executors : ExecFetch(e, TRUE, EmptyBlocks)
    \/ \E e \in Executors : ExecReply(e)
    \/ \E e \in Executors : ExecExit(e)
    \/ \E w \in Workers : MapperHandleStop(w)
    \/ \E w \in Workers : MapperHandleAssign(w, {"b1", NoBroker})
    \/ MapperStopDone
    \/ MapperAssign
    \/ Tick

SpecRetry ==
    /\ InitRetry
    /\ [][NextRetry]_vars
    /\ WF_vars(Tick)
    /\ \A w \in Workers : WF_vars(PumpRetryTimer(w))

\* The blocks of a broker that answers message sets: the set may begin before
\* the offset asked for, and may end before it.
MessageBlocks ==
    {MsgBlock(s, FALSE) : s \in UNION {MsgSets(o) : o \in 0 .. (MaxOffset + 1)}}

\* One worker on a healthy broker that answers every message set around the
\* offset asked for, and empty sets; the user reads both channels.
InitFilter == InitWith({1}, BOOLEAN)

NextFilter ==
    \/ \E o \in 0 .. MaxOffset :
           ~alreadyConsumed("p0") /\ ConsumePartition("p0", o, 0, MaxOffset)
    \/ \E w \in Workers : ConsumePartitionSend(w)
    \/ \E w \in Workers : PumpAssignment(w)
    \/ \E w \in Workers : PumpSendRequest(w)
    \/ \E w \in Workers : PumpFetchResult(w)
    \/ \E w \in Workers : PumpPushMessage(w)
    \/ \E w \in Workers : PumpRetryTimer(w)
    \/ \E e \in Executors : BatcherHandOver(e)
    \/ \E e \in Executors : ExecFetch(e, FALSE, MessageBlocks \cup EmptyBlocks)
    \/ \E e \in Executors : ExecReply(e)
    \/ \E w \in Workers : MapperHandleAssign(w, {"b1"})
    \/ MapperAssign
    \/ \E w \in Workers : UserRecvMessage(w)
    \/ \E w \in Workers : UserRecvError(w)
    \/ Tick

SpecFilter == InitFilter /\ [][NextFilter]_vars

\* The fetchSize of one worker, for small and usual values of fetch.Default,
\* without fetch.Max, with the usual one and with the largest one, on a broker
\* that answers cut messages for as long as it likes.
InitGrowth ==
    InitServer({1}, {FALSE}, {NoRequest},
               [Default : (1 .. MaxFetchDefault) \cup {FetchDefault},
                Max : {0, FetchMax, MaxInt32}])

NextGrowth ==
    \/ ParsePartialTrailing
    \/ ParseMessages

SpecGrowth == InitGrowth /\ [][NextGrowth]_vars

\* ------------------------------------------------------------ properties

\* The message a step pushes on the messages channel of w, if it pushes one.
Pushes(w) == Len(messagesCh'[w]) > Len(messagesCh[w])

Pushed(w) == messagesCh'[w][Len(messagesCh'[w])]

\* C1: every message pushed on a worker's messages channel has an offset above
\* the offset of the message pushed before it, and at or above the
\* concreteOffset that ConsumePartition returned, whatever the brokers answer
\* and however often the worker is reassigned.
C1_MonotoneDelivery ==
    [][\A w \in Workers :
          Pushes(w) => /\ Pushed(w) > lastPushed[w]
                       /\ Pushed(w) >= concreteOffset[w]]_vars

\* A second message has been pushed by a worker that started above the oldest
\* offset and was answered messages below its offset.
C1_Witness ==
    \E w \in Workers :
        /\ concreteOffset[w] = 1
        /\ lastPushed[w] = MaxOffset
        /\ messagesCh[w] = <<MaxOffset>>
        /\ assignedFetchRequestCh[w] = 2

\* C2 as stated: once a message has been pushed, the worker's offset is the
\* offset of the last pushed message plus one.
C2_OffsetIsLastPushedPlusOne ==
    \A w \in Workers : lastPushed[w] # -1 => offset[w] = lastPushed[w] + 1

\* C2: a worker's offset never decreases; the push of a message sets it to that
\* message's offset plus one, and it is never below that afterwards; the only
\* other step that changes it is the skip of an oversized message, by one, with
\* fetchSize at Fetch.Max.
C2_OffsetMonotone ==
    [][\A w \in Workers :
          /\ pumpPc[w] # "none" => offset'[w] >= offset[w]
          /\ lastPushed'[w] # -1 => offset'[w] >= lastPushed'[w] + 1
          /\ Pushes(w) => offset'[w] = Pushed(w) + 1
          /\ (pumpPc[w] # "none" /\ offset'[w] # offset[w] /\ ~Pushes(w))
                => /\ offset'[w] = offset[w] + 1
                   /\ fetchSize[w] = FetchMax
                   /\ fetchSize'[w] = FetchMax]_vars

\* An oversized message was skipped after a message was pushed.
C2_Witness ==
    \E w \in Workers : lastPushed[w] # -1 /\ offset[w] = lastPushed[w] + 2

\* A pump whose program counter is pc has been started and has not returned.
Running(pc) == pc \notin {"none", "exited"}

\* C3: no two running pumps have the same topic/partition and the children map
\* holds a worker under its own topic/partition only; a worker is spawned only
\* for a topic/partition that is not in the map, and the call that returns the
\* configuration error changes nothing else: no worker, no WorkerSpawned event,
\* the same map.
C3_OnePerPartition ==
    [][/\ \A w1 \in Workers, w2 \in Workers :
            (w1 # w2 /\ Running(pumpPc'[w1]) /\ Running(pumpPc'[w2]))
                => tp'[w1] # tp'[w2]
       /\ \A t \in TPs : children'[t] # NoWorker => tp'[children'[t]] = t
       /\ pool' # pool =>
            /\ cpErr' = ErrNil
            /\ \A w \in pool \ pool' : children[tp'[w]] = NoWorker
       /\ (cpErr' = ConfigurationError /\ cpErr # ConfigurationError) =>
            /\ \E t \in TPs : children[t] # NoWorker
            /\ UNCHANGED <<pool, children, childrenLock, cpPc, tp, offset,
                           fetchSize, pumpPc, changes, mapperPc, assignments,
                           assignmentCh, bc>>]_vars

\* A partition was consumed, closed and consumed again, and one more call for
\* it was refused while the second pump was running.
C3_Witness ==
    /\ cpErr = ConfigurationError
    /\ closePc[1] = "returned"
    /\ children["p0"] = 2
    /\ pumpPc[2] = "select"

\* The step takes the fetch result that waits on the reply channel of w.
TakesResult(w) ==
    /\ fetchResultCh[w] # <<>>
    /\ fetchResultCh'[w] = Tail(fetchResultCh[w])

\* The fetch result answers the request of w with an OffsetOutOfRange block.
OutOfRange(result, w) ==
    /\ result.Err = ErrNil
    /\ result.hasResponse
    /\ result.blocks[w].present
    /\ result.blocks[w].Err = ErrOffsetOutOfRange

\* The step sends a fetch request of w to some executor.
SendsRequest(w) ==
    \E e \in Executors :
        Len(bc'[e].batchRequest) > Len(bc[e].batchRequest)
            /\ bc'[e].batchRequest[Len(bc'[e].batchRequest)].ReplyToCh = w

\* C4: the step that takes an OffsetOutOfRange result reports the error, sends
\* no WorkerReassign, arms no request and goes to the closes; from there on the
\* pump sends no request, and when it has exited the three channels are closed,
\* so that a Close() called then finds closedCh closed and returns the errors
\* that were on the errors channel.
C4_OffsetOutOfRange ==
    [][\A w \in Workers :
          /\ (TakesResult(w) /\ OutOfRange(Head(fetchResultCh[w]), w)) =>
                /\ errorsCh'[w] = reportError(errorsCh[w], ErrOffsetOutOfRange)
                /\ changes' = changes
                /\ nilOrFetchRequestsCh'[w] = NilExecutor
                /\ nilOrReassignRetryTimerCh'[w] = nilOrReassignRetryTimerCh[w]
                /\ pumpPc'[w] = "closeMessages"
          /\ (pumpPc[w] # "select" => ~SendsRequest(w))
          /\ pumpPc'[w] = "exited" =>
                messagesClosed'[w] = 1 /\ errorsClosed'[w] = 1 /\ closedCh'[w] = 1
          /\ (closePc[w] = "none" /\ closePc'[w] = "waitClosed"
                /\ pumpPc[w] = "exited") => closedCh'[w] > 0
          /\ (closePc[w] = "waitClosed" /\ closePc'[w] # "waitClosed") =>
                closeErrors'[w] = errorsCh[w]]_vars

\* Close() has returned the OffsetOutOfRange error of a pump that stopped
\* itself.
C4_Witness ==
    \E w \in Workers :
        /\ exitReason[w] = "oor"
        /\ closePc[w] = "returned"
        /\ closeErrors[w] = <<ErrOffsetOutOfRange>>

\* The error of a fetch result that fails for w at offset off for another
\* reason than OffsetOutOfRange, ErrNil if it does not: a transport error, no
\* response, no block for w, another Kafka error in the block, or messages that
\* are all below off.
FailureOf(result, w, off) ==
    IF result.Err # ErrNil THEN result.Err
    ELSE IF ~result.hasResponse \/ ~result.blocks[w].present
        THEN ErrIncompleteResponse
    ELSE IF result.blocks[w].Err = ErrOffsetOutOfRange THEN ErrNil
    ELSE IF result.blocks[w].Err # ErrNoError THEN result.blocks[w].Err
    ELSE IF /\ Len(result.blocks[w].Messages) > 0
            /\ \A i \in 1 .. Len(result.blocks[w].Messages) :
                   result.blocks[w].Messages[i] < off
        THEN ErrIncompleteResponse
    ELSE ErrNil

\* C5: the pump leaves its select loop only on an OffsetOutOfRange result or
\* with the closing signal given; the step that takes a result failing in
\* another way reports the error, unbinds from the executor, stays in the loop
\* and arms the retry timer, and it forwards a WorkerReassign at once when
\* the last one was forwarded more than retry.backoff ago.
C5_OtherFailures ==
    [][\A w \in Workers :
          /\ (pumpPc[w] = "select" /\ pumpPc'[w] # "select") =>
                \/ TakesResult(w) /\ OutOfRange(Head(fetchResultCh[w]), w)
                \/ closingCh[w]
          /\ (TakesResult(w)
                /\ FailureOf(Head(fetchResultCh[w]), w, offset[w]) # ErrNil) =>
                /\ errorsCh'[w] =
                       reportError(errorsCh[w],
                                   FailureOf(Head(fetchResultCh[w]), w, offset[w]))
                /\ assignedFetchRequestCh'[w] = NilExecutor
                /\ nilOrFetchRequestsCh'[w] = NilExecutor
                /\ pumpPc'[w] = "select"
                /\ nilOrReassignRetryTimerCh'[w] = RetryBackoff
                /\ IF lastReassignTime[w] > RetryBackoff
                      THEN changes'[w] = "assign" /\ lastReassignTime'[w] = 0
                      ELSE changes' = changes]_vars

\* A transport error was reported and the reassignment left to the retry timer,
\* the last WorkerReassign having been forwarded retry.backoff ago.
C5_Witness ==
    \E w \in Workers :
        /\ pumpPc[w] = "select"
        /\ errorsCh[w] = <<ErrTransport>>
        /\ assignedFetchRequestCh[w] = NilExecutor
        /\ nilOrReassignRetryTimerCh[w] = RetryBackoff
        /\ lastReassignTime[w] = RetryBackoff
        /\ changes[w] = "none"
        /\ assignments[w] # NilExecutor

\* C6: however handle.Close, Consumer.Close and the pump's own termination
\* interleave, each of messages, errors and closed is closed at most once, errors
\* not before messages and closed not before errors, all three are closed when
\* the pump has returned, and nothing is sent on messages or errors once it is
\* closed.
C6_ClosedOnceInOrder ==
    [][\A w \in Workers :
          /\ messagesClosed'[w] <= 1
          /\ errorsClosed'[w] <= messagesClosed'[w]
          /\ closedCh'[w] <= errorsClosed'[w]
          /\ (pumpPc'[w] = "exited") = (closedCh'[w] = 1)
          /\ messagesClosed[w] = 1 => Len(messagesCh'[w]) <= Len(messagesCh[w])
          /\ errorsClosed[w] = 1 => Len(errorsCh'[w]) <= Len(errorsCh[w])]_vars

\* Consumer.Close has returned after closing a pump that had pushed a message
\* and reported an error.
C6_Witness ==
    \E w \in Workers :
        /\ ccPc = "returned"
        /\ exitReason[w] = "closing"
        /\ messagesClosed[w] = 1 /\ errorsClosed[w] = 1 /\ closedCh[w] = 1
        /\ messagesCh[w] # <<>>
        /\ errorsCh[w] # <<>>

\* C7: a handle.Close() that waits for the pump, with Consumer.Close not
\* called, is never left without a pump to wait for: the process has not
\* panicked.  (Close() cannot return once it has.)
C7_CloseNeverAbandoned ==
    \A w \in Workers : (closePc[w] = "waitClosed" /\ ccPc = "none") => ~panicked

\* The executor e has been stopped: its requests channel is closed and both of
\* its goroutines have returned.
Stopped(e) ==
    bc[e].requestsClosed /\ bc[e].batcherPc = "exited" /\ bc[e].execPc = "exited"

\* C8: when an executor has been stopped, every fetch request that it accepted
\* on its requests channel has been answered on its reply channel.
C8_AcceptedRequestsAnswered ==
    \A e \in Executors : Stopped(e) => unanswered[e] = {}

\* The step is the executor stage of e answering the request at replyIdx.
Replies(e) ==
    /\ bc[e].execPc = "reply"
    /\ \/ bc'[e].execPc = "range"
       \/ bc'[e].replyIdx # bc[e].replyIdx

\* The step is the fetch that the executor stage of e issues for a batch.
Fetches(e) == bc[e].execPc = "fetch" /\ bc'[e].execPc # "fetch"

\* The step hands a batch over to the executor stage of e.
HandsOver(e) == bc[e].execPc = "range" /\ bc'[e].execPc \in {"fetch", "reply"}

\* C9: the fetch of a batch ends with {response, nil}, or with {nil, err}, the
\* error and its time recorded and the connection closed, and sends no reply
\* itself; then the requests of the batch are answered one after the other, each
\* once and with that same result, before the next batch is taken.
C9_OneReplyPerRequest ==
    [][\A e \in Executors :
          /\ Fetches(e) =>
                /\ bc'[e].execPc = "reply" /\ bc'[e].replyIdx = 1
                /\ bc'[e].fetchRequests = bc[e].fetchRequests
                /\ fetchResultCh' = fetchResultCh
                /\ unanswered' = unanswered
                /\ IF bc'[e].res.Err = ErrNil
                      THEN /\ bc'[e].res.hasResponse
                           /\ bc'[e].connOpen
                           /\ bc'[e].lastErrTime = bc[e].lastErrTime
                      ELSE /\ bc'[e].res = NilResult(bc'[e].res.Err)
                           /\ bc'[e].lastErr = bc'[e].res.Err
                           /\ bc'[e].lastErrTime = 0
                           /\ ~bc'[e].connOpen
          /\ (Replies(e) /\ ~bc[e].rejecting) =>
                LET n == Len(bc[e].fetchRequests)
                    w == bc[e].fetchRequests[bc[e].replyIdx].ReplyToCh
                IN  /\ bc[e].replyIdx \in 1 .. n
                    /\ w \in unanswered[e]
                    /\ unanswered'[e] = unanswered[e] \ {w}
                    /\ fetchResultCh' =
                           [fetchResultCh EXCEPT ![w] = Append(@, bc[e].res)]
                    /\ IF bc[e].replyIdx < n
                          THEN /\ bc'[e].execPc = "reply"
                               /\ bc'[e].replyIdx = bc[e].replyIdx + 1
                               /\ bc'[e].res = bc[e].res
                               /\ bc'[e].fetchRequests = bc[e].fetchRequests
                          ELSE bc'[e].execPc = "range"]_vars

\* A batch of two requests failed with a transport error; the first request has
\* been answered, the second is next.
C9_Witness ==
    \E e \in Executors :
        /\ bc[e].execPc = "reply"
        /\ ~bc[e].rejecting
        /\ Len(bc[e].fetchRequests) = 2
        /\ bc[e].replyIdx = 2
        /\ bc[e].res = NilResult(ErrTransport)
        /\ fetchResultCh[bc[e].fetchRequests[1].ReplyToCh] = <<NilResult(ErrTransport)>>

\* C10: a batch handed over less than retry.backoff after the executor's last
\* transport error is rejected: no fetch is issued for it, and each of its
\* requests is answered {nil, lastErr} with lastErr that error; any other batch
\* is fetched, so an executor that never had a transport error rejects none.
C10_CircuitBreaker ==
    [][\A e \in Executors :
          /\ HandsOver(e) =>
                IF bc[e].lastErrTime < RetryBackoff
                   THEN /\ bc'[e].rejecting
                        /\ bc'[e].execPc = "reply"
                        /\ bc[e].lastErr # ErrNil
                   ELSE /\ ~bc'[e].rejecting
                        /\ bc'[e].execPc = "fetch"
          /\ bc'[e].rejecting =>
                /\ bc'[e].execPc = "reply"
                /\ bc'[e].lastErr # ErrNil
                /\ bc'[e].res = NilResult(bc'[e].lastErr)
                /\ ~bc'[e].connOpen
          /\ (Replies(e) /\ bc[e].rejecting) =>
                LET w == bc[e].fetchRequests[bc[e].replyIdx].ReplyToCh
                IN  /\ fetchResultCh' =
                           [fetchResultCh EXCEPT ![w] = Append(@, NilResult(bc[e].lastErr))]
                    /\ unanswered'[e] = unanswered[e] \ {w}
                    /\ bc[e].replyIdx < Len(bc[e].fetchRequests)
                          => bc'[e].rejecting]_vars

\* A batch handed over right after a transport error has been rejected: its
\* request is about to be answered with that error, and no fetch was issued.
C10_Witness ==
    \E e \in Executors :
        /\ bc[e].rejecting
        /\ bc[e].execPc = "reply"
        /\ bc[e].lastErrTime = 0
        /\ bc[e].res = NilResult(ErrTransport)
        /\ Len(bc[e].fetchRequests) = 1
        /\ bc[e].fetchRequests[1].ReplyToCh \in unanswered[e]

\* A step in which the pump of w forwards a WorkerReassign event: either
\* triggerOrScheduleReassign takes its trigger branch (it stamps
\* lastReassignTime), or the retry timer fires (the timer is re-armed while the
\* assignment and fetch result channels are left alone).
ForwardsReassign(w) ==
    \/ lastReassignTime[w] # 0 /\ lastReassignTime'[w] = 0
    \/ /\ nilOrReassignRetryTimerCh[w] = 0
       /\ nilOrReassignRetryTimerCh'[w] = RetryBackoff
       /\ assignmentCh'[w] = assignmentCh[w]
       /\ fetchResultCh'[w] = fetchResultCh[w]
       /\ pumpPc'[w] = pumpPc[w]

\* C11: the reassignment requests are debounced: any two consecutive
\* WorkerReassign events a worker forwards, by triggerOrScheduleReassign or by
\* the retry timer firing, are at least retry.backoff apart.
C11_Debounced ==
    [][\A w \in Workers :
          ForwardsReassign(w) => lastForwardTime[w] >= RetryBackoff]_vars

SentRequest(w) ==
    LET e == CHOOSE e \in Executors :
                 Len(bc'[e].batchRequest) > Len(bc[e].batchRequest)
    IN  bc'[e].batchRequest[Len(bc'[e].batchRequest)]

\* C13: when an empty message set with the partial trailing flag is parsed while
\* fetchSize = fetch.Max > 0, MessageTooLarge is reported, the offset advances by
\* exactly one, fetchSize stays, no reassignment is asked for, the pump goes on,
\* and the next fetch request carries the advanced offset: the request is armed
\* at once, the offset does not move while the pump has neither a result nor
\* messages pending, and a request carries the offset of the moment it is sent.
C13_MessageTooLarge ==
    [][\A w \in Workers :
          /\ (/\ TakesResult(w)
              /\ EmptyPartial(Head(fetchResultCh[w]), w)
              /\ FetchMax > 0
              /\ fetchSize[w] = FetchMax) =>
                /\ errorsCh'[w] =
                       IF returnErrors /\ Len(errorsCh[w]) < ChannelBufferSize
                           THEN Append(errorsCh[w], ErrMessageTooLarge)
                           ELSE errorsCh[w]
                /\ offset'[w] = offset[w] + 1
                /\ fetchSize'[w] = fetchSize[w]
                /\ changes' = changes
                /\ assignedFetchRequestCh'[w] = assignedFetchRequestCh[w]
                /\ nilOrReassignRetryTimerCh'[w] = nilOrReassignRetryTimerCh[w]
                /\ pumpPc[w] = "select" /\ pumpPc'[w] = "select"
                /\ nilOrFetchRequestsCh'[w] = assignedFetchRequestCh[w]
                /\ ~nilOrFetchResultsCh'[w] /\ ~nilOrMessagesCh'[w]
          /\ (/\ pumpPc[w] = "select" /\ pumpPc'[w] = "select"
              /\ ~nilOrFetchResultsCh[w] /\ ~nilOrMessagesCh[w]) =>
                offset'[w] = offset[w]
          /\ SendsRequest(w) =>
                SentRequest(w).Offset = offset[w] /\ offset'[w] = offset[w]]_vars

\* The oversized message at the starting offset was skipped and reported, and
\* the request for the next offset is with the executor.
C13_Witness ==
    \E w \in Workers :
        /\ errorsCh[w] = <<ErrMessageTooLarge>>
        /\ fetchSize[w] = FetchMax
        /\ lastPushed[w] = -1
        /\ offset[w] = concreteOffset[w] + 1
        /\ nilOrFetchResultsCh[w]
        /\ \E e \in Executors :
              \E i \in 1 .. Len(bc[e].fetchRequests) :
                  bc[e].fetchRequests[i].Offset = offset[w]

\* The step takes the k-th result of w, every result of w so far, this one
\* included, being an empty message set with the partial trailing flag.
TakesLeadingPartial(w, k) ==
    /\ TakesResult(w)
    /\ EmptyPartial(Head(fetchResultCh[w]), w)
    /\ leadingPartials[w] = k - 1

\* The step reports MessageTooLarge for w and skips one offset.
SkipsOversized(w) ==
    /\ offset'[w] = offset[w] + 1
    /\ errorsCh'[w] = IF returnErrors /\ Len(errorsCh[w]) < ChannelBufferSize
                          THEN Append(errorsCh[w], ErrMessageTooLarge)
                          ELSE errorsCh[w]

\* The step only changes the fetchSize of w, to size.
GrowsTo(w, size) ==
    /\ fetchSize'[w] = size
    /\ offset'[w] = offset[w]
    /\ errorsCh'[w] = errorsCh[w]

\* C14 as stated: in scenario S2 (fetch.Default = 1024, fetch.Max = 4096, a
\* worker starting at fetchSize 1024) fetchSize reaches 4096 after the third
\* consecutive empty partial-trailing response, and MessageTooLarge is reported,
\* with the offset advanced by one, on the fourth such response, not earlier.
C14_FourthResponse ==
    [][\A w \in Workers :
          /\ TakesLeadingPartial(w, 1) => GrowsTo(w, fetchSize'[w])
          /\ TakesLeadingPartial(w, 2) =>
                GrowsTo(w, fetchSize'[w]) /\ fetchSize'[w] < 4096
          /\ TakesLeadingPartial(w, 3) => GrowsTo(w, 4096)
          /\ TakesLeadingPartial(w, 4) =>
                SkipsOversized(w) /\ fetchSize'[w] = 4096]_vars

\* C14 amended: in scenario S2 fetchSize is 2048 after the first empty
\* partial-trailing response and reaches 4096 after the second; MessageTooLarge
\* is reported, with the offset advanced by one and fetchSize left at 4096, on
\* the third such response, not earlier, and on every one that follows.
C14_ThirdResponse ==
    [][\A w \in Workers :
          /\ TakesLeadingPartial(w, 1) =>
                fetchSize[w] = 1024 /\ GrowsTo(w, 2048)
          /\ TakesLeadingPartial(w, 2) => GrowsTo(w, 4096)
          /\ \A k \in 3 .. MaxOffset + 3 :
                TakesLeadingPartial(w, k) =>
                    SkipsOversized(w) /\ fetchSize'[w] = 4096]_vars

\* Three empty partial-trailing responses in a row from the start: the third
\* one has skipped the message at the starting offset.
C14_Witness ==
    \E w \in Workers :
        /\ leadingPartials[w] = 3
        /\ fetchSize[w] = 4096
        /\ offset[w] = concreteOffset[w] + 1
        /\ returnErrors => errorsCh[w] = <<ErrMessageTooLarge>>

\* The fetch result is a block for w whose message set is not empty and holds a
\* message at or above the offset of w: it is parsed without error.
NonEmptyParsed(result, w) ==
    /\ result.Err = ErrNil
    /\ result.hasResponse
    /\ result.blocks[w].present
    /\ result.blocks[w].Err = ErrNoError
    /\ \E i \in 1 .. Len(result.blocks[w].Messages) :
          result.blocks[w].Messages[i] >= offset[w]

\* C15: however much fetchSize grew, the step that parses a response with a
\* non-empty message set without error leaves fetchSize at exactly fetch.Default,
\* and the next fetch request carries fetch.Default as its maxBytes: no request
\* is pending after that step, fetchSize does not change while no request is
\* pending, and a request carries the fetchSize of the moment it is sent.
C15_FetchSizeReset ==
    [][\A w \in Workers :
          /\ (TakesResult(w) /\ NonEmptyParsed(Head(fetchResultCh[w]), w)) =>
                /\ fetchSize'[w] = FetchDefault
                /\ ~nilOrFetchResultsCh'[w]
          /\ (pumpPc[w] # "none" /\ ~nilOrFetchResultsCh[w]) =>
                fetchSize'[w] = fetchSize[w]
          /\ SendsRequest(w) =>
                /\ SentRequest(w).MaxBytes = fetchSize[w]
                /\ fetchSize'[w] = fetchSize[w]]_vars

\* fetchSize had grown to fetch.Max (an oversized message was reported), then a
\* message was parsed and pushed, and the request that follows is with the
\* executor carrying fetch.Default.
C15_Witness ==
    \E w \in Workers :
        /\ errorsCh[w] = <<ErrMessageTooLarge>>
        /\ lastPushed[w] > concreteOffset[w]
        /\ offset[w] = lastPushed[w] + 1
        /\ fetchSize[w] = FetchDefault
        /\ \E e \in Executors :
              \E i \in 1 .. Len(bc[e].fetchRequests) :
                  /\ bc[e].fetchRequests[i].Offset = offset[w]
                  /\ bc[e].fetchRequests[i].MaxBytes = FetchDefault

\* The step spawns the worker w.
Spawns(w) == pumpPc[w] = "none" /\ pumpPc'[w] = "select"

\* C16: for every requested offset r and oldest <= newest answered by the
\* client, the offset chosen is newest when r is OffsetNewest or r > newest,
\* otherwise oldest when r is OffsetOldest or r < oldest, otherwise r; it lies in
\* [oldest, newest]; it is the concreteOffset returned to the caller and the
\* initial offset of the spawned worker, which its first fetch request carries.
C16_StartingOffset ==
    [][\A w \in Workers :
          /\ Spawns(w) =>
                LET r == cpCall'.requested
                    oldest == cpCall'.oldestOffset
                    newest == cpCall'.newestOffset
                IN  /\ concreteOffset'[w] =
                           IF r = OffsetNewest \/ r > newest THEN newest
                           ELSE IF r = OffsetOldest \/ r < oldest THEN oldest
                           ELSE r
                    /\ oldest <= concreteOffset'[w]
                    /\ concreteOffset'[w] <= newest
                    /\ offset'[w] = concreteOffset'[w]
          /\ (SendsRequest(w) /\ leadingPartials[w] = 0) =>
                SentRequest(w).Offset = concreteOffset[w]]_vars

\* An offset above the newest one was requested while the log had been
\* truncated: the worker started at the newest offset and its first fetch
\* request, for that offset, is with the executor.
C16_Witness ==
    \E w \in Workers :
        /\ cpCall.requested > cpCall.newestOffset
        /\ cpCall.oldestOffset > 0
        /\ cpCall.newestOffset > cpCall.oldestOffset
        /\ concreteOffset[w] = cpCall.newestOffset
        /\ leadingPartials[w] = 0
        /\ \E e \in Executors :
              /\ Len(bc[e].fetchRequests) = 1
              /\ bc[e].fetchRequests[1].ReplyToCh = w
              /\ bc[e].fetchRequests[1].Offset = cpCall.newestOffset

\* The error that the pump of w reports when it takes result at offset off
\* with fetch size size: the one parseFetchResult returns, or MessageTooLarge
\* for a cut message that cannot be asked for with a larger size.
ReportedFor(result, w, off, size) ==
    IF OutOfRange(result, w) THEN ErrOffsetOutOfRange
    ELSE IF FailureOf(result, w, off) # ErrNil THEN FailureOf(result, w, off)
    ELSE IF EmptyPartial(result, w) /\ FetchMax > 0 /\ size = FetchMax
        THEN ErrMessageTooLarge
    ELSE ErrNil

\* C17: an error gets on the errors channel only when Return.Errors is set and
\* only by a report of the pump; a report made while the channel is full drops
\* the error and the pump goes on; the channel never holds more than its buffer
\* size, and with Return.Errors unset it stays empty.
C17_ReportError ==
    /\ [](\A w \in Workers :
             /\ Len(errorsCh[w]) <= ChannelBufferSize
             /\ ~returnErrors => errorsCh[w] = <<>>)
    /\ [][\A w \in Workers :
             LET err == ReportedFor(Head(fetchResultCh[w]), w, offset[w],
                                    fetchSize[w])
             IN  /\ (TakesResult(w) /\ err # ErrNil) =>
                       /\ errorsCh'[w] =
                              IF returnErrors
                                     /\ Len(errorsCh[w]) < ChannelBufferSize
                                  THEN Append(errorsCh[w], err)
                                  ELSE errorsCh[w]
                       /\ ~nilOrFetchResultsCh'[w]
                       /\ pumpPc'[w] \in {"select", "closeMessages"}
                 /\ Len(errorsCh'[w]) > Len(errorsCh[w]) =>
                       returnErrors /\ TakesResult(w) /\ err # ErrNil]_vars

\* The errors channel was full of an earlier error when the pump reported
\* OffsetOutOfRange: that error was dropped and the pump went on to exit.
C17_Witness ==
    \E w \in Workers :
        /\ returnErrors
        /\ exitReason[w] = "oor"
        /\ pumpPc[w] = "exited"
        /\ errorsCh[w] = <<ErrNotLeaderForPartition>>

\* C18: no function holds a lock across a channel send: no call is at its
\* WorkerSpawned or WorkerStopped send, or waits on a worker's closedCh, while
\* it holds the consumer's children lock.
C18_NoLockAcrossSend ==
    /\ \A w \in Workers :
          cpPc[w] = "sendSpawned" => childrenLock # "ConsumePartition"
    /\ ccPc = "wait" => childrenLock # "Close"

\* The executor e has been spawned and the mapper has not stopped it.
Live(bcs, e) == bcs[e].live /\ ~bcs[e].requestsClosed

C20_ConsumeStatus ==
    (/\ httpResponse.written
     /\ ~httpRequest.proxyErr /\ ~httpRequest.groupErr
     /\ httpRequest.consumeErr # ErrNil) =>
        httpResponse.status =
            IF httpRequest.consumeErr = ErrRequestTimeout THEN 408
            ELSE IF httpRequest.consumeErr = ErrTooManyRequests THEN 429
            ELSE IF httpRequest.consumeErr = ErrUnknownTopicOrPartition THEN 404
            ELSE 500

\* The tracker is in state (b, sp), takes onAck(o), and is in state (b2, sp2)
\* afterwards, which committable() returns.
AckStep(b, sp, o, b2, sp2) ==
    (tracker = [B |-> b, sparse |-> sp] /\ ackedOffset' = o
        /\ tracker' = onAck(tracker, o))
    => /\ tracker' = [B |-> b2, sparse |-> sp2]
       /\ committable(tracker').B = b2
       /\ decode(b2, committable(tracker').meta) = sp2

C22_NonEmptyBatches ==
    [][\A e \in Executors :
          /\ bc[e].batcherPc = "run" =>
                (bc[e].nilOrBatchRequestCh <=> bc[e].batchRequest # <<>>)
          /\ bc[e].execPc \in {"fetch", "reply"} => bc[e].fetchRequests # <<>>
          /\ \A i \in DOMAIN bc[e].batchRequest, j \in DOMAIN bc[e].batchRequest :
                i # j => bc[e].batchRequest[i].ReplyToCh
                            # bc[e].batchRequest[j].ReplyToCh
          /\ HandsOver(e) =>
                /\ bc[e].batchRequest # <<>>
                /\ bc'[e].fetchRequests = bc[e].batchRequest
                /\ bc'[e].batchRequest = <<>>
                /\ ~bc'[e].nilOrBatchRequestCh
          /\ \A w \in Workers :
                (SendsRequest(w) /\ SentRequest(w) \in Range(bc'[e].batchRequest)) =>
                    /\ bc'[e].batchRequest = Append(bc[e].batchRequest, SentRequest(w))
                    /\ bc'[e].nilOrBatchRequestCh
                    /\ bc'[e].fetchRequests = bc[e].fetchRequests]_vars

\* A request was accepted while the executor stage was busy with a batch, and
\* waits in the pending batch.
C22_Witness ==
    \E e \in Executors :
        /\ bc[e].execPc \in {"fetch", "reply"}
        /\ bc[e].fetchRequests # <<>>
        /\ bc[e].batchRequest # <<>>
        /\ bc[e].nilOrBatchRequestCh

\* The pump of w takes an assignment from assignmentCh.
TakesAssignment(w) ==
    /\ pumpPc[w] = "select"
    /\ assignmentCh[w] # <<>>
    /\ assignmentCh'[w] = Tail(assignmentCh[w])

\* The retry timer of w fires: the step is the pump's timer branch.
TimerFires(w) ==
    /\ nilOrReassignRetryTimerCh[w] = 0
    /\ nilOrReassignRetryTimerCh'[w] = RetryBackoff
    /\ assignmentCh'[w] = assignmentCh[w]
    /\ fetchResultCh'[w] = fetchResultCh[w]
    /\ pumpPc'[w] = pumpPc[w]

\* The pump of w runs with its retry timer armed.
Retrying(w) ==
    /\ ~panicked
    /\ pumpPc[w] = "select"
    /\ nilOrReassignRetryTimerCh[w] # TimerOff

C23_TimerArmed ==
    [][\A w \in Workers :
          /\ (TakesAssignment(w) /\ Head(assignmentCh[w]) = NilExecutor) =>
                /\ nilOrReassignRetryTimerCh'[w] = RetryBackoff
                /\ assignedFetchRequestCh'[w] = NilExecutor
          /\ (nilOrReassignRetryTimerCh[w] # TimerOff
                /\ nilOrReassignRetryTimerCh'[w] = TimerOff) =>
                \/ TakesAssignment(w) /\ Head(assignmentCh[w]) # NilExecutor
                \/ pumpPc'[w] # "select"
          /\ TimerFires(w) =>
                /\ changes'[w] # "none"
                /\ lastForwardTime'[w] = 0
                /\ pumpPc'[w] = "select"]_vars

\* C23: a nil assignment arms the retry timer, which stays armed until a
\* non-nil assignment is taken or the pump leaves its loop; the timer branch
\* forwards a WorkerReassign and rearms the timer; so a pump that goes on
\* running with its timer armed forwards a WorkerReassign again and again.
C23_KeepsRetrying ==
    /\ C23_TimerArmed
    /\ \A w \in Workers :
          <>[]Retrying(w) => []<><<ForwardsReassign(w)>>_vars

\* The retry timer has just fired for a worker without executor: the
\* WorkerReassign is forwarded and the timer runs again.
C23_Witness ==
    \E w \in Workers :
        /\ Retrying(w)
        /\ assignedFetchRequestCh[w] = NilExecutor
        /\ nilOrReassignRetryTimerCh[w] = RetryBackoff
        /\ lastForwardTime[w] = 0
        /\ lastReassignTime[w] > 0
        /\ changes[w] = "assign"

\* The pump of w takes a fetch result that parseFetchResult turns into an error.
TakesFetchError(w) ==
    /\ TakesResult(w)
    /\ parseFetchResult(w, offset[w], fetchSize[w], Head(fetchResultCh[w])).err # ErrNil

\* The pump of w takes a nil assignment.
TakesNilAssignment(w) == TakesAssignment(w) /\ Head(assignmentCh[w]) = NilExecutor

\* C24: the step that takes a non-nil assignment disarms the retry timer; while
\* the timer is disarmed it is armed again, and a WorkerReassign is forwarded,
\* only by a step that takes a fetch error or a nil assignment.
C24_Disarmed ==
    [][\A w \in Workers :
          /\ (TakesAssignment(w) /\ Head(assignmentCh[w]) # NilExecutor) =>
                /\ nilOrReassignRetryTimerCh'[w] = TimerOff
                /\ changes'[w] = changes[w]
                /\ lastForwardTime'[w] = lastForwardTime[w]
          /\ (nilOrReassignRetryTimerCh[w] = TimerOff /\ pumpPc[w] = "select"
                /\ \/ nilOrReassignRetryTimerCh'[w] # TimerOff
                   \/ ForwardsReassign(w)
                   \/ lastForwardTime'[w] < lastForwardTime[w]) =>
                (TakesFetchError(w) \/ TakesNilAssignment(w))]_vars

\* A worker that had asked for a reassignment holds an executor again, its
\* retry timer disarmed.
C24_Witness ==
    \E w \in Workers :
        /\ pumpPc[w] = "select"
        /\ assignedFetchRequestCh[w] # NilExecutor
        /\ nilOrReassignRetryTimerCh[w] = TimerOff
        /\ lastReassignTime[w] <= RetryBackoff

\* The fetch result answers the request of w with a message set that is not
\* empty and whose messages all lie below off.
AllBelow(result, w, off) ==
    /\ result.Err = ErrNil
    /\ result.hasResponse
    /\ result.blocks[w].present
    /\ result.blocks[w].Err = ErrNoError
    /\ result.blocks[w].Messages # <<>>
    /\ \A i \in DOMAIN result.blocks[w].Messages :
          result.blocks[w].Messages[i] < off

\* C25: the messages that the pump keeps of a fetch result are those of the
\* block at or above the worker's offset, in their order; when the message set
\* is not empty and all of it lies below the offset, the result is the error
\* IncompleteResponse and no empty result: the error is reported, the worker
\* gives up its executor, arms the retry timer instead of the next request,
\* and its offset stays.
C25_OnlyFromOffset ==
    [][\A w \in Workers :
          TakesResult(w) =>
            LET result == Head(fetchResultCh[w]) IN
            /\ \A i \in DOMAIN fetchedMessages'[w] :
                  /\ fetchedMessages'[w][i] >= offset[w]
                  /\ fetchedMessages'[w][i] \in Range(result.blocks[w].Messages)
            /\ (result.Err = ErrNil /\ result.blocks[w].Err = ErrNoError) =>
                  \A i \in DOMAIN result.blocks[w].Messages :
                      result.blocks[w].Messages[i] >= offset[w] =>
                          result.blocks[w].Messages[i] \in Range(fetchedMessages'[w])
            /\ AllBelow(result, w, offset[w]) =>
                  /\ parseFetchResult(w, offset[w], fetchSize[w], result).err
                         = ErrIncompleteResponse
                  /\ errorsCh'[w] =
                         IF returnErrors /\ Len(errorsCh[w]) < ChannelBufferSize
                             THEN Append(errorsCh[w], ErrIncompleteResponse)
                             ELSE errorsCh[w]
                  /\ fetchedMessages'[w] = <<>>
                  /\ offset'[w] = offset[w]
                  /\ assignedFetchRequestCh'[w] = NilExecutor
                  /\ nilOrFetchRequestsCh'[w] = NilExecutor
                  /\ ~nilOrMessagesCh'[w]
                  /\ nilOrReassignRetryTimerCh'[w] = RetryBackoff
                  /\ pumpPc'[w] = "select"]_vars

\* A message set that ended below the worker's offset was answered with
\* IncompleteResponse, and the worker waits for its reassignment.
C25_Witness ==
    \E w \in Workers :
        /\ offset[w] > 0
        /\ ErrIncompleteResponse \in Range(errorsCh[w])
        /\ assignedFetchRequestCh[w] = NilExecutor
        /\ nilOrReassignRetryTimerCh[w] = RetryBackoff
        /\ fetchedMessages[w] = <<>>

\* The step takes w out of the children map.
RemovesChild(w) == tp[w] # NoTP /\ children[tp[w]] = w /\ children'[tp[w]] # w

\* C26 as stated: when the pump of a worker whose handle is being closed exits
\* (closes closedCh), the worker is in the children map no more.
C26_RemovedBeforeExit ==
    [][\A w \in Workers :
          (closePc[w] # "none" /\ closedCh[w] = 0 /\ closedCh'[w] > 0) =>
              children[tp[w]] # w]_vars

\* C26: handle.Close() takes the worker out of the children map only after
\* its pump has exited (closedCh is closed) and before WorkerStopped is sent:
\* while Close waits for the pump, the worker is still in the map.
C26_RemovedAfterExit ==
    [][\A w \in Workers :
          /\ RemovesChild(w) =>
                /\ closePc[w] = "lock"
                /\ closedCh[w] > 0
                /\ pumpPc[w] = "exited"
                /\ changes'[w] = changes[w]
          /\ closePc[w] = "waitClosed" => children[tp[w]] = w
          /\ (closePc[w] = "sendStopped" /\ closePc'[w] = "returned") =>
                /\ children[tp[w]] # w
                /\ changes'[w] = "stop"]_vars

\* handle.Close() has taken the worker out of the map, its pump gone.
C26_Witness ==
    \E w \in Workers :
        /\ closePc[w] = "sendStopped"
        /\ tp[w] # NoTP
        /\ children[tp[w]] = NoWorker
        /\ pumpPc[w] = "exited"
        /\ exitReason[w] = "closing"

\* The phases of the pump of w that are enabled: the next request armed, a
\* result awaited, messages being pushed to the user.
Phases(w) ==
    (IF nilOrFetchRequestsCh[w] # NilExecutor THEN {"send"} ELSE {})
        \cup (IF nilOrFetchResultsCh[w] THEN {"await"} ELSE {})
        \cup (IF nilOrMessagesCh[w] THEN {"push"} ELSE {})

\* The fetch requests of w that are sent and whose result w has not taken:
\* those an executor holds, and the result in the reply channel.
Outstanding(w) ==
    Cardinality({e \in Executors : w \in unanswered[e]}) + Len(fetchResultCh[w])

\* C27: at most one of the pump's phases 'request armed', 'result awaited' and
\* 'pushing messages' is enabled; a worker has at most one fetch request
\* outstanding, and has one exactly while its pump awaits a result, whatever
\* executors it is assigned to meanwhile; so the reply channel of the worker
\* whose request an executor stage answers next is empty, and the reply does
\* not block.
C27_OneOutstanding ==
    /\ \A w \in Workers :
          /\ Cardinality(Phases(w)) <= 1
          /\ Outstanding(w) <= 1
          /\ pumpPc[w] = "select" => (nilOrFetchResultsCh[w] <=> Outstanding(w) = 1)
    /\ \A e \in Executors :
          bc[e].execPc = "reply" =>
              fetchResultCh[bc[e].fetchRequests[bc[e].replyIdx].ReplyToCh] = <<>>

\* The pump awaits the result of a request that one executor holds, and has
\* been assigned to another executor meanwhile.
C27_Witness ==
    \E w \in Workers, e \in Executors :
        /\ pumpPc[w] = "select"
        /\ Phases(w) = {"await"}
        /\ w \in unanswered[e]
        /\ assignedFetchRequestCh[w] \notin {NilExecutor, e}

\* C28: whenever the pump's send branch is armed, its target is the executor
\* of the worker's latest non-nil assignment, that executor is live and its
\* requests channel open; no send ever meets a closed requests channel.
C28_SendsToLiveExecutor ==
    /\ ~panicked
    /\ \A w \in Workers :
          (pumpPc[w] = "select" /\ nilOrFetchRequestsCh[w] # NilExecutor) =>
              /\ nilOrFetchRequestsCh[w] = assignedFetchRequestCh[w]
              /\ Live(bc, nilOrFetchRequestsCh[w])

\* C29: the fetchSize of a worker is strictly positive, whatever fetch.Default
\* > 0 and fetch.Max >= 0 are configured and however many cut messages the
\* broker answers in a row.
C29_FetchSizePositive == growth.fetchSize > 0

====
